---- MODULE Spec2Model ----
(***************************************************************************)
(* kafka-sniffer: the expiring relation registry (package metrics), the    *)
(* request framer (package kafka) and the per-flow stream driver (package  *)
(* stream), as state machines.                                             *)
(*                                                                         *)
(* SpecRegistry  - one metric of the Storage, its observers, its relation  *)
(*                 goroutines, their timers and the runExpiration consumer *)
(* FairRegistry  - the same under fair scheduling of goroutines and timers *)
(* SpecDriver    - KafkaStream.run on one half-flow: DecodeRequest on the   *)
(*                 bytes of the stream, the resync after an error, and the *)
(*                 Storage calls it makes                                  *)
(* FairDriver    - the same with the driver's goroutine scheduled fairly   *)
(* SpecStreams   - the driver of one half-flow and the drivers of other    *)
(*                 half-flows of its client, with the gauge of active      *)
(*                 connections they register with                          *)
(* SpecCodec     - the decoder on its own: the getters of RealDecoder and  *)
(*                 the final check of Decode, applied to sample buffers    *)
(***************************************************************************)
EXTENDS Integers, Sequences, FiniteSets, TLC

\* ---------------------------------------------------------------- bounds

\* goroutines calling the Storage concurrently (stream drivers)
NumObservers == 2
\* observation calls made in one behaviour, over all observers
MaxCalls == 3
\* the configured -metrics.expire-time, in clock ticks
ExpireTime == 2

\* ------------------------------------------------------- registry: state

VARIABLES
    metricName,  \* which metric of the Storage this behaviour follows
    gauge,       \* promMetric: label tuple -> value, for the series that exist
    relations,   \* metric.relations: label key -> relation (index into rels)
    rels,        \* every relation allocated so far: labels, expireTime, timer, its goroutine
    mux,         \* metric.mux: Unlocked or the goroutine holding it
    obs,         \* each observer: where it is inside set/inc/update, and its labels
    exp,         \* the runExpiration goroutine: where it is, and the labels it received
    calls,       \* observation calls started
    nobs,        \* label tuple -> observation calls completed
    sinceObs     \* label tuple -> ticks since its last completed observation (saturating)

regVars == <<metricName, gauge, relations, rels, mux, obs, exp, calls, nobs, sinceObs>>

\* --------------------------------------------------- stream driver: state

VARIABLES
    flow,        \* KafkaStream.net and .transport: the half-flow's endpoints
    frames,      \* what the client sent: the frames and fragments making up the stream
    stream,      \* the bytes the reassembler delivers on h.r before end-of-stream
    pos,         \* bytes of the stream consumed through buf so far
    dpc,         \* where KafkaStream.run is
    last,        \* this iteration's DecodeRequest: where it started and what it returned
    pending,     \* the Storage calls of this iteration's switch still to be made
    callsLog,    \* every Storage call the driver has made, in order
    iterFrom,    \* length of callsLog when this iteration began
    logged,      \* the lines the loop has printed with log.Printf, in order
    discards     \* the buf.Discard calls made so far

drvVars == <<flow, frames, stream, pos, dpc, last, pending, callsLog, iterFrom,
             logged, discards>>

\* ---------------------------------------------------- wire codec: state

VARIABLES
    helper,      \* Decode's RealDecoder: the buffer raw (its place in Buffers) and the cursor off
    called,      \* the call made last on it: the method and its argument
    ret          \* what that call returned: the value and the error

codVars == <<helper, called, ret>>

vars == <<regVars, drvVars, codVars>>

Observers == 1..NumObservers

Topics == {"t", "u"}

\* the three gauges of the Storage
Metrics == {"producer_topic_relation_info", "consumer_topic_relation_info",
            "active_connections_total"}

\* active_connections_total is created with hourExpireTime, not with the
\* configured expireTime: a second, longer duration
hourExpireTime == ExpireTime + 1

\* the expireTime NewStorage hands to newMetric for each gauge
NewStorage(name) ==
    IF name = "active_connections_total" THEN hourExpireTime ELSE ExpireTime

\* the client addresses seen: h.net.Src().String()
ClientIPs == {"10.0.0.1"}

\* the label tuples the callers of a gauge pass: (client_ip, topic) or (client_ip)
LabelsOf(name) ==
    IF name = "active_connections_total"
    THEN {<<ip>> : ip \in ClientIPs}
    ELSE {<<ip, t>> : ip \in ClientIPs, t \in Topics}

AllLabels == UNION {LabelsOf(n) : n \in Metrics}

MaxExpire == hourExpireTime

\* strings.Join(labels, "_")
RECURSIVE Join(_)
Join(labels) ==
    IF Len(labels) = 0 THEN ""
    ELSE IF Len(labels) = 1 THEN labels[1]
    ELSE labels[1] \o "_" \o Join(Tail(labels))

\* a faulty genLabelKey that keys a relation by its first label only: what
\* C8's formula must tell from the real one
genLabelKey_firstLabel(labels) == labels[1]

\* genLabelKey: the labels joined with "_"
genLabelKey(labels) == Join(labels)

\* sync.Mutex metric.mux: free, or held by an observer or by runExpiration
Unlocked == <<>>
HeldBy(o) == <<"observer", o>>
HeldByExpiration == <<"runExpiration">>

NoTimer == [active |-> FALSE, rem |-> -1, c |-> FALSE]

\* time.NewTimer(d): armed, nothing in its channel
NewTimer(d) == [active |-> TRUE, rem |-> d, c |-> FALSE]

\* a faulty Timer.Reset that re-arms without moving the deadline: what C4's
\* formula must tell from the real one
Reset_keepsDeadline(t, d) == [active |-> TRUE, rem |-> t.rem, c |-> t.c]

\* Timer.Reset(d) (go 1.13 timers): re-arms; a value already sent on C stays there
Reset(t, d) == [active |-> TRUE, rem |-> d, c |-> t.c]

\* a faulty refresh that re-arms every timer for the hour of the gauge of
\* active connections: what C19's formula must tell from the real one
refresh_hour(r) ==
    [r EXCEPT !.timer = IF r.timer = NoTimer THEN NewTimer(hourExpireTime)
                        ELSE Reset(r.timer, hourExpireTime)]

\* relation.refresh: resets timer or creates a new one
refresh(r) ==
    [r EXCEPT !.timer = IF r.timer = NoTimer THEN NewTimer(r.expireTime)
                        ELSE Reset(r.timer, r.expireTime)]

\* newRelation: the relation object; `go rel.run()` starts its goroutine at "start"
newRelation(expireTime, labels) ==
    [labels |-> labels, expireTime |-> expireTime, timer |-> NoTimer, pc |-> "start"]

\* function f without the key k
Without(f, k) == [x \in DOMAIN f \ {k} |-> f[x]]

\* function f with f[k] = v
With(f, k, v) == [x \in DOMAIN f \cup {k} |-> IF x = k THEN v ELSE f[x]]

\* promMetric.WithLabelValues(labels...).Set(1)
GaugeSet(g, labels) == With(g, labels, 1)

\* a faulty inc that sets the series to 1 as metric.set does: what C18's
\* formula must tell from the real one
GaugeInc_sets(g, labels) == With(g, labels, 1)

\* promMetric.WithLabelValues(labels...).Inc()
GaugeInc(g, labels) == With(g, labels, IF labels \in DOMAIN g THEN g[labels] + 1 ELSE 1)

\* promMetric.DeleteLabelValues(labels...)
DeleteLabelValues(g, labels) == Without(g, labels)

\* metric.set for the two relation gauges, metric.inc for active connections:
\* the gauge operation that precedes update
GaugeOp(name, g, labels) ==
    IF name = "active_connections_total" THEN GaugeInc(g, labels) ELSE GaugeSet(g, labels)

InitRegistry ==
    /\ metricName \in Metrics
    /\ gauge = <<>>
    /\ relations = <<>>
    /\ rels = <<>>
    /\ mux = Unlocked
    /\ obs = [o \in Observers |-> [pc |-> "idle", labels |-> <<>>]]
    /\ exp = [pc |-> "recv", labels |-> <<>>]
    /\ calls = 0
    /\ nobs = [l \in AllLabels |-> 0]
    /\ sinceObs = [l \in AllLabels |-> MaxExpire]

\* ----------------------------------------------------- registry: actions

\* metric.set / metric.inc, first statement: the gauge is written before the
\* metric mutex is taken
metric_set(o, labels) ==
    /\ obs[o].pc = "idle"
    /\ calls < MaxCalls
    /\ labels \in LabelsOf(metricName)
    /\ gauge' = GaugeOp(metricName, gauge, labels)
    /\ obs' = [obs EXCEPT ![o] = [pc |-> "lock", labels |-> labels]]
    /\ calls' = calls + 1
    /\ UNCHANGED <<metricName, relations, rels, mux, exp, nobs, sinceObs, drvVars, codVars>>

\* metric.update: m.mux.Lock()
update_Lock(o) ==
    /\ obs[o].pc = "lock"
    /\ mux = Unlocked
    /\ mux' = HeldBy(o)
    /\ obs' = [obs EXCEPT ![o].pc = "crit"]
    /\ UNCHANGED <<metricName, gauge, relations, rels, exp, calls, nobs, sinceObs, drvVars, codVars>>

\* a faulty metric.update that never looks the key up and always creates a
\* relation: what C7's formula must tell from the real one
updateBody_alwaysCreates(name, tbl, rs, labels) ==
    [relations |-> With(tbl, genLabelKey(labels), Len(rs) + 1),
     rels |-> Append(rs, newRelation(NewStorage(name), labels))]

\* the table and relations after the body of metric.update for `labels`
updateBody(name, tbl, rs, labels) ==
    LET key == genLabelKey(labels) IN
    IF key \in DOMAIN tbl
    THEN [relations |-> tbl,
          rels |-> [rs EXCEPT ![tbl[key]] = refresh(rs[tbl[key]])]]
    ELSE [relations |-> With(tbl, key, Len(rs) + 1),
          rels |-> Append(rs, newRelation(NewStorage(name), labels))]

\* metric.update: the lookup and refresh-or-create under the mutex
update_Body(o) ==
    /\ obs[o].pc = "crit"
    /\ LET l == obs[o].labels
           r == updateBody(metricName, relations, rels, l) IN
        /\ relations' = r.relations
        /\ rels' = r.rels
        /\ nobs' = [nobs EXCEPT ![l] = @ + 1]
        /\ sinceObs' = [sinceObs EXCEPT ![l] = 0]
    /\ obs' = [obs EXCEPT ![o].pc = "unlock"]
    /\ UNCHANGED <<metricName, gauge, mux, exp, calls, drvVars, codVars>>

\* a faulty metric.update that returns with the metric mutex still held: what
\* C21's formula must tell from the real one
update_Unlock_keepsMutex(o) ==
    /\ obs[o].pc = "unlock"
    /\ obs' = [obs EXCEPT ![o] = [pc |-> "idle", labels |-> <<>>]]
    /\ UNCHANGED <<metricName, gauge, relations, rels, mux, exp, calls, nobs, sinceObs,
                   drvVars, codVars>>

\* metric.update: m.mux.Unlock(), and the call returns
update_Unlock(o) ==
    /\ obs[o].pc = "unlock"
    /\ mux' = Unlocked
    /\ obs' = [obs EXCEPT ![o] = [pc |-> "idle", labels |-> <<>>]]
    /\ UNCHANGED <<metricName, gauge, relations, rels, exp, calls, nobs, sinceObs, drvVars, codVars>>

\* relation.run, first statement: c.refresh()
run_Refresh(i) ==
    /\ i \in DOMAIN rels
    /\ rels[i].pc = "start"
    /\ rels' = [rels EXCEPT ![i] = [refresh(rels[i]) EXCEPT !.pc = "wait"]]
    /\ UNCHANGED <<metricName, gauge, relations, mux, obs, exp, calls, nobs, sinceObs, drvVars, codVars>>

\* the runtime fires an armed timer whose duration has elapsed: a value is
\* put on timer.C (capacity 1) and the timer is no longer armed
TimerFire(i) ==
    /\ i \in DOMAIN rels
    /\ rels[i].timer.active
    /\ rels[i].timer.rem = 0
    /\ rels' = [rels EXCEPT ![i].timer = [active |-> FALSE, rem |-> 0, c |-> TRUE]]
    /\ UNCHANGED <<metricName, gauge, relations, mux, obs, exp, calls, nobs, sinceObs, drvVars, codVars>>

\* relation.run: case <-c.timer.C
run_Receive(i) ==
    /\ i \in DOMAIN rels
    /\ rels[i].pc = "wait"
    /\ rels[i].timer.c
    /\ rels' = [rels EXCEPT ![i].timer.c = FALSE, ![i].pc = "send"]
    /\ UNCHANGED <<metricName, gauge, relations, mux, obs, exp, calls, nobs, sinceObs, drvVars, codVars>>

\* relation.run: c.expCh <- c.labels, met by runExpiration: labels := <-m.expCh
\* (expCh is unbuffered: the send and the receive are one step); run returns
run_Send(i) ==
    /\ i \in DOMAIN rels
    /\ rels[i].pc = "send"
    /\ exp.pc = "recv"
    /\ rels' = [rels EXCEPT ![i].pc = "done"]
    /\ exp' = [pc |-> "del", labels |-> rels[i].labels]
    /\ UNCHANGED <<metricName, gauge, relations, mux, obs, calls, nobs, sinceObs, drvVars, codVars>>

\* runExpiration: m.promMetric.DeleteLabelValues(labels...), before the mutex
runExpiration_Delete ==
    /\ exp.pc = "del"
    /\ gauge' = DeleteLabelValues(gauge, exp.labels)
    /\ exp' = [exp EXCEPT !.pc = "lock"]
    /\ UNCHANGED <<metricName, relations, rels, mux, obs, calls, nobs, sinceObs, drvVars, codVars>>

\* a faulty runExpiration that goes on to delete the relation without waiting
\* for the mutex: what C34's formula must tell from the real one
runExpiration_Lock_noWait ==
    /\ exp.pc = "lock"
    /\ mux' = HeldByExpiration
    /\ exp' = [exp EXCEPT !.pc = "crit"]
    /\ UNCHANGED <<metricName, gauge, relations, rels, obs, calls, nobs, sinceObs, drvVars, codVars>>

\* runExpiration: m.mux.Lock()
runExpiration_Lock ==
    /\ exp.pc = "lock"
    /\ mux = Unlocked
    /\ mux' = HeldByExpiration
    /\ exp' = [exp EXCEPT !.pc = "crit"]
    /\ UNCHANGED <<metricName, gauge, relations, rels, obs, calls, nobs, sinceObs, drvVars, codVars>>

\* delete(m.relations, genLabelKey(labels...))
deleteRelation(tbl, labels) ==
    IF genLabelKey(labels) \in DOMAIN tbl THEN Without(tbl, genLabelKey(labels)) ELSE tbl

\* runExpiration: remove relation
runExpiration_Body ==
    /\ exp.pc = "crit"
    /\ relations' = deleteRelation(relations, exp.labels)
    /\ exp' = [exp EXCEPT !.pc = "unlock"]
    /\ UNCHANGED <<metricName, gauge, rels, mux, obs, calls, nobs, sinceObs, drvVars, codVars>>

\* runExpiration: m.mux.Unlock(), and back to the select
runExpiration_Unlock ==
    /\ exp.pc = "unlock"
    /\ mux' = Unlocked
    /\ exp' = [pc |-> "recv", labels |-> <<>>]
    /\ UNCHANGED <<metricName, gauge, relations, rels, obs, calls, nobs, sinceObs, drvVars, codVars>>

\* one tick of the clock: every armed timer has one tick less to run
Tick ==
    /\ rels' = [i \in DOMAIN rels |->
                 IF rels[i].timer.active /\ rels[i].timer.rem > 0
                 THEN [rels[i] EXCEPT !.timer.rem = @ - 1] ELSE rels[i]]
    /\ sinceObs' = [l \in AllLabels |->
                     IF sinceObs[l] < MaxExpire THEN sinceObs[l] + 1 ELSE sinceObs[l]]
    /\ UNCHANGED <<metricName, gauge, relations, mux, obs, exp, calls, nobs, drvVars, codVars>>

\* the goroutines of the registry and the timers: everything but a new call
RegistrySteps ==
    \/ \E o \in Observers : update_Lock(o)
    \/ \E o \in Observers : update_Body(o)
    \/ \E o \in Observers : update_Unlock(o)
    \/ \E i \in 1..MaxCalls : run_Refresh(i)
    \/ \E i \in 1..MaxCalls : TimerFire(i)
    \/ \E i \in 1..MaxCalls : run_Receive(i)
    \/ \E i \in 1..MaxCalls : run_Send(i)
    \/ runExpiration_Delete
    \/ runExpiration_Lock
    \/ runExpiration_Body
    \/ runExpiration_Unlock
    \/ Tick

NextRegistry ==
    \/ \E o \in Observers, l \in AllLabels : metric_set(o, l)
    \/ RegistrySteps

\* the registry alone: no stream driver runs
NoDriver ==
    /\ flow = <<>>
    /\ frames = <<>>
    /\ stream = <<>>
    /\ pos = 0
    /\ dpc = "none"
    /\ last = <<>>
    /\ pending = {}
    /\ callsLog = <<>>
    /\ iterFrom = 0
    /\ logged = <<>>
    /\ discards = 0

\* a decoder nothing was called on yet
NoCall == [method |-> "none", arg |-> 0, at |-> 0, nth |-> 0]
NoReturn == [val |-> <<>>, err |-> "nil"]

\* no decoder is at work outside the driver
NoCodec ==
    /\ helper = [raw |-> 0, off |-> 0]
    /\ called = NoCall
    /\ ret = NoReturn

InitRegistryAlone == InitRegistry /\ NoDriver /\ NoCodec

SpecRegistry == InitRegistryAlone /\ [][NextRegistry]_vars

\* the Go scheduler runs every runnable goroutine and the runtime fires every
\* due timer; nothing obliges a caller to make another call
FairRegistry == SpecRegistry /\ WF_vars(RegistrySteps)

\* ------------------------------------------------------------ wire codec

\* error values: Go's nil, the plain errors, and the PacketDecodingError values
NoError == "nil"
EOF == "io.EOF"
ErrUnexpectedEOF == "io.ErrUnexpectedEOF"
ErrInsufficientData == "kafka: insufficient data to decode packet, more bytes expected"
ErrNegativeCount == "bufio: negative count"
errInvalidArrayLength == "PacketDecodingError: invalid array length"
errInvalidByteSliceLength == "PacketDecodingError: invalid byteslice length"
errInvalidStringLength == "PacketDecodingError: invalid string length"
errInvalidLength == "PacketDecodingError: invalid length"
errUnsupportedProtocol == "PacketDecodingError: unsupported protocol"
errFrameSize == "PacketDecodingError: message too large or too small"

\* not an error value: the goroutine panics (an index or a slice out of
\* range, a make with a negative length) and nothing runs after it
Panic == "panic: runtime error"

\* the bounds check of the slice expression raw[from:to] and, with
\* to = from + n, of the indexings raw[from] .. raw[from + n - 1]
InBounds(raw, from, to) == 0 <= from /\ from <= to /\ to <= Len(raw)

\* a decoder step that takes raw[from:to]: its outcome r, or the panic of
\* the bounds check, nil being the value a step returns with an error
Indexed(raw, from, to, nil, r) ==
    IF InBounds(raw, from, to) THEN r ELSE [off |-> from, val |-> nil, err |-> Panic]

\* err.(kafka.PacketDecodingError)
IsPacketDecodingError(err) ==
    err \in {errInvalidArrayLength, errInvalidByteSliceLength, errInvalidStringLength,
             errInvalidLength, errUnsupportedProtocol, errFrameSize}

\* binary.BigEndian.Uint16 of the bytes after offset off
Uint16(raw, off) == raw[off + 1] * 256 + raw[off + 2]

\* the conversions int8() and int16() of an unsigned value
Int8(u) == IF u >= 128 THEN u - 256 ELSE u
Int16(u) == IF u >= 32768 THEN u - 65536 ELSE u

\* int32(binary.BigEndian.Uint32(raw[off:])): the four bytes as a signed
\* 32-bit value, the first byte carrying the sign
Int32BE(raw, off) ==
    Int8(raw[off + 1]) * 16777216 + raw[off + 2] * 65536 + Uint16(raw, off + 2)

MaxInt32 == 2147483647
MinInt32 == -MaxInt32 - 1

\* a faulty length that forgets the key and version already read: what C9's
\* formula must tell from the real one
SubInt32_4_forgotten(x) == x

\* x - 4 in int32 arithmetic, which wraps below MinInt32
SubInt32_4(x) ==
    IF x >= MinInt32 + 4 THEN x - 4 ELSE (x + MaxInt32) + (MaxInt32 - 2)

\* a decoder step's outcome: the new cursor, the value, the error
Result(off, val, err) == [off |-> off, val |-> val, err |-> err]

\* RealDecoder.remaining
remaining(raw, off) == Len(raw) - off

\* RealDecoder.getInt8
getInt8(raw, off) ==
    IF remaining(raw, off) < 1 THEN Result(Len(raw), -1, ErrInsufficientData)
    ELSE Indexed(raw, off, off + 1, -1,
                 Result(off + 1, Int8(raw[off + 1]), NoError))

\* a faulty getInt16 that leaves the cursor where it is when the bytes are
\* not there: what C23's formula must tell from the real one
getInt16_cursorKept(raw, off) ==
    IF remaining(raw, off) < 2 THEN Result(off, -1, ErrInsufficientData)
    ELSE Indexed(raw, off, off + 2, -1,
                 Result(off + 2, Int16(Uint16(raw, off)), NoError))

\* RealDecoder.getInt16
getInt16(raw, off) ==
    IF remaining(raw, off) < 2 THEN Result(Len(raw), -1, ErrInsufficientData)
    ELSE Indexed(raw, off, off + 2, -1,
                 Result(off + 2, Int16(Uint16(raw, off)), NoError))

\* RealDecoder.getInt32
getInt32(raw, off) ==
    IF remaining(raw, off) < 4 THEN Result(Len(raw), -1, ErrInsufficientData)
    ELSE Indexed(raw, off, off + 4, -1,
                 Result(off + 4, Int32BE(raw, off), NoError))

\* math.MaxUint16
MaxUint16 == 65535

\* a faulty getArrayLength without the limit of 2*math.MaxUint16: what C24's
\* formula must tell from the real one
getArrayLength_unlimited(raw, off) ==
    IF remaining(raw, off) < 4 THEN Result(Len(raw), -1, ErrInsufficientData)
    ELSE Indexed(raw, off, off + 4, -1,
             LET tmp == Int32BE(raw, off) IN
             IF tmp > remaining(raw, off + 4) THEN Result(Len(raw), -1, ErrInsufficientData)
             ELSE Result(off + 4, tmp, NoError))

\* RealDecoder.getArrayLength
getArrayLength(raw, off) ==
    IF remaining(raw, off) < 4 THEN Result(Len(raw), -1, ErrInsufficientData)
    ELSE Indexed(raw, off, off + 4, -1,
             LET tmp == Int32BE(raw, off) IN
             IF tmp > remaining(raw, off + 4) THEN Result(Len(raw), -1, ErrInsufficientData)
             ELSE IF tmp > 2 * MaxUint16 THEN Result(off + 4, -1, errInvalidArrayLength)
             ELSE Result(off + 4, tmp, NoError))

\* a faulty getStringLength that lets a length below -1 through: what C26's
\* formula must tell from the real one
getStringLength_belowNull(raw, off) ==
    LET l == getInt16(raw, off) IN
    IF l.err # NoError THEN Result(l.off, 0, l.err)
    ELSE IF l.val > remaining(raw, l.off) THEN Result(Len(raw), 0, ErrInsufficientData)
    ELSE Result(l.off, l.val, NoError)

\* RealDecoder.getStringLength
getStringLength(raw, off) ==
    LET l == getInt16(raw, off) IN
    IF l.err # NoError THEN Result(l.off, 0, l.err)
    ELSE IF l.val < -1 THEN Result(l.off, 0, errInvalidStringLength)
    ELSE IF l.val > remaining(raw, l.off) THEN Result(Len(raw), 0, ErrInsufficientData)
    ELSE Result(l.off, l.val, NoError)

\* the bytes rd.raw[from : to] of a Go slice expression (0-based, to excluded)
Slice(raw, from, to) == SubSeq(raw, from + 1, to)

\* `rd.raw[start : start+n]; rd.off += n`: the bytes and the cursor after
\* them, or the panic of the bounds check
Sliced(raw, start, to, nil) ==
    Indexed(raw, start, to, nil, Result(to, Slice(raw, start, to), NoError))

\* RealDecoder.getString: a string is kept as its bytes
getString(raw, off) ==
    LET n == getStringLength(raw, off) IN
    IF n.err # NoError \/ n.val = -1 THEN Result(n.off, <<>>, n.err)
    ELSE Sliced(raw, n.off, n.off + n.val, <<>>)

\* the nil *string
NilString == [nil |-> TRUE]

\* RealDecoder.getNullableString
getNullableString(raw, off) ==
    LET n == getStringLength(raw, off) IN
    IF n.err # NoError \/ n.val = -1 THEN Result(n.off, NilString, n.err)
    ELSE Sliced(raw, n.off, n.off + n.val, NilString)

\* a faulty getRawBytes that does not compare the length with what remains:
\* what C20's formula must tell from the real one
getRawBytes_unchecked(raw, off, length) ==
    IF length < 0 THEN Result(off, <<>>, errInvalidByteSliceLength)
    ELSE Sliced(raw, off, off + length, <<>>)

\* RealDecoder.getRawBytes
getRawBytes(raw, off, length) ==
    IF length < 0 THEN Result(off, <<>>, errInvalidByteSliceLength)
    ELSE IF length > remaining(raw, off) THEN Result(Len(raw), <<>>, ErrInsufficientData)
    ELSE Sliced(raw, off, off + length, <<>>)

\* a faulty getSubset that makes the new decoder and leaves the cursor of its
\* parent where it is, as peek does: what C35's formula must tell from the
\* real one
getSubset_cursorKept(raw, off, length) ==
    [getRawBytes(raw, off, length) EXCEPT !.off = off]

\* RealDecoder.getSubset: the value is the raw buffer of the new decoder
getSubset(raw, off, length) == getRawBytes(raw, off, length)

\* a faulty peek that moves the cursor behind the bytes it returns, as
\* getSubset does: what C37's formula must tell from the real one
peek_cursorMoved(raw, off, offset, length) ==
    IF remaining(raw, off) < offset + length THEN Result(off, <<>>, ErrInsufficientData)
    ELSE Indexed(raw, off + offset, off + offset + length, <<>>,
                 Result(off + offset + length,
                        Slice(raw, off + offset, off + offset + length), NoError))

\* RealDecoder.peek: the value is the raw buffer of the new decoder; rd.off
\* is not assigned
peek(raw, off, offset, length) ==
    IF remaining(raw, off) < offset + length THEN Result(off, <<>>, ErrInsufficientData)
    ELSE Indexed(raw, off + offset, off + offset + length, <<>>,
                 Result(off, Slice(raw, off + offset, off + offset + length), NoError))

\* a faulty peekInt8 that returns the byte without the conversion to int8:
\* what C27's formula must tell from the real one
peekInt8_unsigned(raw, off, offset) ==
    IF remaining(raw, off) < offset + 1 THEN Result(off, -1, ErrInsufficientData)
    ELSE Indexed(raw, off + offset, off + offset + 1, -1,
                 Result(off, raw[off + offset + 1], NoError))

\* RealDecoder.peekInt8
peekInt8(raw, off, offset) ==
    IF remaining(raw, off) < offset + 1 THEN Result(off, -1, ErrInsufficientData)
    ELSE Indexed(raw, off + offset, off + offset + 1, -1,
                 Result(off, Int8(raw[off + offset + 1]), NoError))

\* RealDecoder.discard: no bounds check
discard(off, length) == off + length

\* RealDecoder.getInt64: the value is kept as its two 32-bit halves
getInt64(raw, off) ==
    IF remaining(raw, off) < 8 THEN Result(Len(raw), -1, ErrInsufficientData)
    ELSE Indexed(raw, off, off + 8, -1,
                 Result(off + 8, <<Int32BE(raw, off), Int32BE(raw, off + 4)>>, NoError))

\* binary.BigEndian.Uint32 of the bytes after offset off, converted to int:
\* GOARCH is amd64 and int has 64 bits, so the count runs from 0 to 2^32 - 1
\* and is kept as its two 16-bit halves
IntOfUint32(raw, off) == [hi |-> Uint16(raw, off), lo |-> Uint16(raw, off + 2)]

\* n == 0 and n < 0 for such an int: it is never negative
IsZero(n) == n.hi = 0 /\ n.lo = 0
IsNegative(n) == FALSE

\* the count as a number, where it is below 2^31
Count(n) == n.hi * 65536 + n.lo

\* rd.remaining() < size*n, the product being 2^31 or more, and so beyond
\* what any buffer holds, from n.hi = 32768 / size on
RemainingBelow(rem, size, n) ==
    IF n.hi >= 32768 \div size THEN TRUE ELSE rem < size * Count(n)

\* the nil slice a collection decoder returns: an array of no elements
NilArray == <<>>

\* getInt32Array and getInt64Array from the count on: the elements are read
\* with no further check
getIntArray_elements(raw, off, size, n) ==
    IF RemainingBelow(remaining(raw, off), size, n)
    THEN Result(Len(raw), NilArray, ErrInsufficientData)
    ELSE IF IsZero(n) THEN Result(off, NilArray, NoError)
    ELSE IF IsNegative(n) THEN Result(off, NilArray, errInvalidArrayLength)
    ELSE Result(off + size * Count(n),
                [i \in 1..Count(n) |->
                    IF size = 4 THEN Int32BE(raw, off + 4 * (i - 1))
                    ELSE <<Int32BE(raw, off + 8 * (i - 1)),
                           Int32BE(raw, off + 8 * (i - 1) + 4)>>],
                NoError)

\* RealDecoder.getInt32Array
getInt32Array(raw, off) ==
    IF remaining(raw, off) < 4 THEN Result(Len(raw), NilArray, ErrInsufficientData)
    ELSE Indexed(raw, off, off + 4, NilArray,
                 getIntArray_elements(raw, off + 4, 4, IntOfUint32(raw, off)))

\* RealDecoder.getInt64Array
getInt64Array(raw, off) ==
    IF remaining(raw, off) < 4 THEN Result(Len(raw), NilArray, ErrInsufficientData)
    ELSE Indexed(raw, off, off + 4, NilArray,
                 getIntArray_elements(raw, off + 4, 8, IntOfUint32(raw, off)))

\* fatal error: the runtime could not get the memory of a make
OutOfMemory == "fatal error: runtime: out of memory"

\* getStringArray, the loop `for i := range ret` from turn i on: one getString
\* per element, the first error ending it
RECURSIVE getStringArray_elements(_, _, _, _, _)
getStringArray_elements(raw, off, i, n, acc) ==
    IF n.hi < 32768 /\ i >= Count(n) THEN Result(off, acc, NoError)
    ELSE LET str == getString(raw, off) IN
         IF str.err # NoError THEN Result(str.off, NilArray, str.err)
         ELSE getStringArray_elements(raw, str.off, i + 1, n, Append(acc, str.val))

\* RealDecoder.getStringArray from the count on; make([]string, n) is given
\* its memory or, for a count of 2^31 and more (32 GiB of string headers),
\* it may not be
getStringArray_make(raw, off, n, allocated) ==
    IF IsZero(n) THEN Result(off, NilArray, NoError)
    ELSE IF IsNegative(n) THEN Result(off, NilArray, errInvalidArrayLength)
    ELSE IF n.hi >= 32768 /\ ~allocated THEN Result(off, NilArray, OutOfMemory)
    ELSE getStringArray_elements(raw, off, 0, n, <<>>)

\* RealDecoder.getStringArray
getStringArray(raw, off, allocated) ==
    IF remaining(raw, off) < 4 THEN Result(Len(raw), NilArray, ErrInsufficientData)
    ELSE Indexed(raw, off, off + 4, NilArray,
                 getStringArray_make(raw, off + 4, IntOfUint32(raw, off), allocated))

\* --------------------------------------------------------- body decoders

\* records.go: magicOffset
magicOffset == 16

\* Records.setTypeFromMagic: the records type, from the magic byte
setTypeFromMagic(sub) ==
    LET magic == peekInt8(sub, 0, magicOffset) IN
    IF magic.err # NoError THEN Result(0, "unknownRecords", magic.err)
    ELSE Result(0, IF magic.val < 2 THEN "legacyRecords" ELSE "defaultRecords", NoError)

\* MessageSet.Decode: the legacy container is read as an opaque blob
MessageSet_Decode(sub) == NoError

\* RecordBatch.decode: the default container is read as an opaque blob
RecordBatch_decode(sub) == NoError

\* Records.decode, on the sub-decoder's buffer: the error it returns
Records_decode(sub) ==
    LET t == setTypeFromMagic(sub) IN
    IF t.err # NoError THEN t.err
    ELSE IF t.val = "legacyRecords" THEN MessageSet_Decode(sub)
    ELSE RecordBatch_decode(sub)

\* a body decoder's outcome: the new cursor, the error, the decoded body
BodyResult(off, err, body) == [off |-> off, err |-> err, body |-> body]

\* how far a Decode method has got: the decoder's cursor, the error it has
\* returned (nil while it runs) and its variables (locals and receiver fields)
Running(off, v) == [off |-> off, err |-> NoError, v |-> v]

\* `name, err = <decoder call>`, the call's outcome being r
Assigned(s, name, r) ==
    [off |-> r.off, err |-> r.err,
     v |-> IF r.err = NoError THEN [s.v EXCEPT ![name] = r.val] ELSE s.v]

\* a call pd.method() through the PacketDecoder interface, the decoder being
\* at off
PacketDecoder(method, raw, off) ==
    CASE method = "getInt8" -> getInt8(raw, off)
      [] method = "getInt16" -> getInt16(raw, off)
      [] method = "getInt32" -> getInt32(raw, off)
      [] method = "getInt64" -> getInt64(raw, off)
      [] method = "getArrayLength" -> getArrayLength(raw, off)
      [] method = "getString" -> getString(raw, off)
      [] method = "getNullableString" -> getNullableString(raw, off)

\* `name, err := pd.method(); if err != nil { return err }`: nothing runs
\* after a return
Get(s, name, method, raw) ==
    IF s.err # NoError THEN s ELSE Assigned(s, name, PacketDecoder(method, raw, s.off))

\* the same statement inside `if cond { ... }`
GetIf(cond, s, name, method, raw) ==
    IF cond THEN Get(s, name, method, raw) ELSE s

\* the ProduceRequest value
ProduceRequest(version, records) ==
    [kind |-> "ProduceRequest", Version |-> version, records |-> records]

\* ProduceRequest.Decode: recordsDecoder, err := pd.getSubset(int(size))
ProduceRequest_getSubset(s, raw) ==
    IF s.err # NoError THEN s
    ELSE Assigned(s, "recordsDecoder", getSubset(raw, s.off, s.v.size))

\* ProduceRequest.Decode: var records Records; records.decode(recordsDecoder)
ProduceRequest_decodeRecords(s) ==
    IF s.err # NoError THEN s
    ELSE [s EXCEPT !.err = Records_decode(s.v.recordsDecoder)]

\* ProduceRequest.Decode: r.records[topic][partition] = records
ProduceRequest_putPartition(s) ==
    IF s.err # NoError THEN s
    ELSE [s EXCEPT !.v.records[s.v.topic] = @ \cup {s.v.partition}]

\* a faulty ProduceRequest.Decode that makes r.records anew on every turn of
\* its loop over the topics: what C28's formula must tell from the real one
ProduceRequest_makeTopic_anew(s) ==
    IF s.err # NoError THEN s
    ELSE [s EXCEPT !.v.records = With(<<>>, s.v.topic, {})]

\* ProduceRequest.Decode: r.records[topic] = make(map[int32]Records)
ProduceRequest_makeTopic(s) ==
    IF s.err # NoError THEN s
    ELSE [s EXCEPT !.v.records = With(@, s.v.topic, {})]

\* ProduceRequest.Decode, the loop over one topic's partitions, from turn j:
\* partition id, records size, a sub-decoder of that size, the records
RECURSIVE ProducePartitions(_, _, _)
ProducePartitions(raw, s, j) ==
    IF s.err # NoError \/ j >= s.v.partitionCount THEN s
    ELSE LET s1 == Get(s, "partition", "getInt32", raw)
             s2 == Get(s1, "size", "getInt32", raw)
             s3 == ProduceRequest_getSubset(s2, raw)
             s4 == ProduceRequest_decodeRecords(s3)
             s5 == ProduceRequest_putPartition(s4)
         IN ProducePartitions(raw, s5, j + 1)

\* ProduceRequest.Decode, the loop over the topics, from turn i; r.records
\* maps a topic name to its partitions
RECURSIVE ProduceTopics(_, _, _)
ProduceTopics(raw, s, i) ==
    IF s.err # NoError \/ i >= s.v.topicCount THEN s
    ELSE LET s1 == Get(s, "topic", "getString", raw)
             s2 == Get(s1, "partitionCount", "getArrayLength", raw)
             s3 == ProduceRequest_makeTopic(s2)
             s4 == ProducePartitions(raw, s3, 0)
         IN ProduceTopics(raw, s4, i + 1)

\* what a body's Decode returns: the cursor, the error, the body as filled
Returned(s, kind) ==
    BodyResult(s.off, s.err,
               [kind |-> kind, Version |-> s.v.Version, records |-> s.v.records])

\* the receiver and the locals of ProduceRequest.Decode as it starts
ProduceLocals(version) ==
    [Version |-> version, TransactionalID |-> NilString,
     RequiredAcks |-> 0, Timeout |-> 0, topicCount |-> 0,
     records |-> <<>>, topic |-> <<>>, partitionCount |-> 0,
     partition |-> 0, size |-> 0, recordsDecoder |-> <<>>]

\* a faulty ProduceRequest.Decode that reads a transactional id from version
\* 2 on: what C36's formula must tell from the real one
ProduceRequest_head_idFromVersion2(raw, off, version) ==
    LET s0 == Running(off, ProduceLocals(version))
        s1 == GetIf(version >= 2, s0, "TransactionalID", "getNullableString", raw)
        s2 == Get(s1, "RequiredAcks", "getInt16", raw)
        s3 == Get(s2, "Timeout", "getInt32", raw)
    IN Get(s3, "topicCount", "getArrayLength", raw)

\* ProduceRequest.Decode up to its loop: the transactional id from version 3
\* on, the required acks, the timeout, the number of topics
ProduceRequest_head(raw, off, version) ==
    LET s0 == Running(off, ProduceLocals(version))
        s1 == GetIf(version >= 3, s0, "TransactionalID", "getNullableString", raw)
        s2 == Get(s1, "RequiredAcks", "getInt16", raw)
        s3 == Get(s2, "Timeout", "getInt32", raw)
    IN Get(s3, "topicCount", "getArrayLength", raw)

\* ProduceRequest.Decode as far as it runs: the head, then the loop over the
\* topics
ProduceRequest_run(raw, off, version) ==
    ProduceTopics(raw, ProduceRequest_head(raw, off, version), 0)

\* ProduceRequest.Decode; with topicCount = 0 it returns before the loop,
\* r.records being nil: no topics either way
ProduceRequest_Decode(raw, off, version) ==
    Returned(ProduceRequest_run(raw, off, version), "ProduceRequest")

\* FetchRequest.Decode, one topic's partition descriptors, from turn j:
\* partition id, fetch offset, (version >= 5: log start offset), max bytes
RECURSIVE FetchPartitions(_, _, _)
FetchPartitions(raw, s, j) ==
    IF s.err # NoError \/ j >= s.v.partitionCount THEN s
    ELSE LET s1 == Get(s, "partition", "getInt32", raw)
             s2 == Get(s1, "fetchOffset", "getInt64", raw)
             s3 == GetIf(s.v.Version >= 5, s2, "logStartOffset", "getInt64", raw)
             s4 == Get(s3, "maxBytes", "getInt32", raw)
             s5 == ProduceRequest_putPartition(s4)
         IN FetchPartitions(raw, s5, j + 1)

\* FetchRequest.Decode, the loop over the topics, from turn i: topic name,
\* partition array
RECURSIVE FetchTopics(_, _, _)
FetchTopics(raw, s, i) ==
    IF s.err # NoError \/ i >= s.v.topicCount THEN s
    ELSE LET s1 == Get(s, "topic", "getString", raw)
             s2 == Get(s1, "partitionCount", "getArrayLength", raw)
             s3 == ProduceRequest_makeTopic(s2)
             s4 == FetchPartitions(raw, s3, 0)
         IN FetchTopics(raw, s4, i + 1)

\* the FetchRequest value
FetchRequest(version, blocks) ==
    [kind |-> "FetchRequest", Version |-> version, records |-> blocks]

\* FetchRequest.Decode: replica id, max wait, min bytes, (version >= 3: max
\* bytes), (version >= 4: isolation level), then the topic array
FetchRequest_Decode(raw, off, version) ==
    LET s0 == Running(off, [Version |-> version, ReplicaID |-> 0, MaxWaitTime |-> 0,
                            MinBytes |-> 0, MaxBytes |-> 0, Isolation |-> 0,
                            topicCount |-> 0, records |-> <<>>, topic |-> <<>>,
                            partitionCount |-> 0, partition |-> 0,
                            fetchOffset |-> <<0, 0>>, logStartOffset |-> <<0, 0>>,
                            maxBytes |-> 0])
        s1 == Get(s0, "ReplicaID", "getInt32", raw)
        s2 == Get(s1, "MaxWaitTime", "getInt32", raw)
        s3 == Get(s2, "MinBytes", "getInt32", raw)
        s4 == GetIf(version >= 3, s3, "MaxBytes", "getInt32", raw)
        s5 == GetIf(version >= 4, s4, "Isolation", "getInt8", raw)
        s6 == Get(s5, "topicCount", "getArrayLength", raw)
        s7 == FetchTopics(raw, s6, 0)
    IN Returned(s7, "FetchRequest")

\* ProduceRequest.ExtractTopics / FetchRequest.ExtractTopics: the keys of the
\* topic map, in whatever order the map yields them
ExtractTopics(body) == DOMAIN body.records

\* ------------------------------------------------- framer and dispatcher

\* var MaxRequestSize int32 = 100 * 1024 * 1024
MaxRequestSize == 104857600

\* the nil ProtocolBody and the nil *Request
NoBody == [kind |-> "nil"]
NoRequest == [nil |-> TRUE]

\* a faulty allocateBody whose switch falls through to a FetchRequest for
\* every other key: what C10's formula must tell from the real one
allocateBody_default(key, version) ==
    IF key = 0 THEN "ProduceRequest" ELSE "FetchRequest"

\* allocateBody: the kind of body allocated for a key
allocateBody(key, version) ==
    IF key = 0 THEN "ProduceRequest"
    ELSE IF key = 1 THEN "FetchRequest"
    ELSE "nil"

\* the Request value
Request(key, version, bodyLength, correlationID, clientID, body) ==
    [Key |-> key, Version |-> version, BodyLength |-> bodyLength,
     CorrelationID |-> correlationID, ClientID |-> clientID, Body |-> body]

\* r.Body.Decode(pd, r.Version), dispatched on the allocated body
Body_Decode(kind, raw, off, version) ==
    IF kind = "ProduceRequest" THEN ProduceRequest_Decode(raw, off, version)
    ELSE FetchRequest_Decode(raw, off, version)

\* Request.Decode: `return r.Body.Decode(pd, r.Version)`, its outcome being b
Request_withBody(r, b) == BodyResult(b.off, b.err, [r EXCEPT !.Body = b.body])

\* Request.Decode from `body := allocateBody(r.Key, r.Version)` on: without a
\* body the rest of the frame is discarded, otherwise the body decodes itself
Request_DecodeBody(s, raw) ==
    IF s.err # NoError THEN BodyResult(s.off, s.err, s.v)
    ELSE IF allocateBody(s.v.Key, s.v.Version) = "nil"
    THEN BodyResult(discard(s.off, s.v.BodyLength - 10 - Len(s.v.ClientID)), NoError, s.v)
    ELSE Request_withBody(s.v, Body_Decode(allocateBody(s.v.Key, s.v.Version), raw,
                                           s.off, s.v.Version))

\* Request.Decode on a request with UsePreparedKeyVersion set or not; the
\* outcome carries the request as filled so far
Request_Decode(raw, key0, version0, bodyLength, usePreparedKeyVersion) ==
    LET s0 == Running(0, Request(key0, version0, bodyLength, 0, <<>>, NoBody))
        s1 == GetIf(~usePreparedKeyVersion, s0, "Key", "getInt16", raw)
        s2 == GetIf(~usePreparedKeyVersion, s1, "Version", "getInt16", raw)
        s3 == Get(s2, "CorrelationID", "getInt32", raw)
        s4 == Get(s3, "ClientID", "getString", raw)
    IN Request_DecodeBody(s4, raw)

\* a faulty check that looks for bytes left over only, and lets a cursor
\* beyond the buffer through: what C22's formula must tell from the real one
Decode_checkLength_leftOverOnly(d, buf) ==
    IF d.err # NoError THEN d
    ELSE IF d.off < Len(buf) THEN BodyResult(d.off, errInvalidLength, d.body)
    ELSE d

\* Decode(buf, in), after in.Decode(&helper) returned d: the check for
\* trailing bytes
Decode_checkLength(d, buf) ==
    IF d.err # NoError THEN d
    ELSE IF d.off # Len(buf) THEN BodyResult(d.off, errInvalidLength, d.body)
    ELSE d

\* Decode(buf, in) for a Request
Decode(buf, key, version, bodyLength, usePreparedKeyVersion) ==
    Decode_checkLength(Request_Decode(buf, key, version, bodyLength, usePreparedKeyVersion),
                       buf)

\* a faulty read that leaves the bytes it returns in the reader, as Peek
\* does: what C13's formula must tell from the real one
ReadFull_peeks(rd, at, n) ==
    IF Len(rd) - at >= n THEN [pos |-> at, err |-> NoError]
    ELSE IF Len(rd) = at THEN [pos |-> at, err |-> EOF]
    ELSE [pos |-> Len(rd), err |-> ErrUnexpectedEOF]

\* io.ReadFull(r, buf) with len(buf) = n > 0 on a reader at position at: the
\* new position and the error
ReadFull(rd, at, n) ==
    IF Len(rd) - at >= n THEN [pos |-> at + n, err |-> NoError]
    ELSE IF Len(rd) = at THEN [pos |-> at, err |-> EOF]
    ELSE [pos |-> Len(rd), err |-> ErrUnexpectedEOF]

\* DecodeLength, DecodeKey, DecodeVersion on the 8 bytes read at position at
DecodeLength(rd, at) == Int32BE(rd, at)
DecodeKey(rd, at) == Int16(Uint16(rd, at + 4))
DecodeVersion(rd, at) == Int16(Uint16(rd, at + 6))

\* the scratch buffer encodedReq is nil until `make([]byte, length)` has run
NoBuffer == -1

\* a faulty DecodeRequest that makes the scratch buffer from the declared
\* length as soon as the prelude is read, before any check: what C30's
\* formula must tell from the real one
Decoded_bufferFirst(req, n, err, at) ==
    [req |-> req, n |-> n, err |-> err, pos |-> at, made |-> n]

\* what DecodeRequest returns (req, the byte count, err), where it leaves
\* the reader and the length of the scratch buffer it made
Decoded(req, n, err, at) ==
    [req |-> req, n |-> n, err |-> err, pos |-> at, made |-> NoBuffer]

\* `encodedReq := make([]byte, length)` has run before DecodeRequest returned r
WithBuffer(r, length) == [r EXCEPT !.made = length]

\* DecodeRequest: needReadBytes = 8
needReadBytes == 8

\* a faulty count that leaves the prelude out, as the earlier returns of
\* DecodeRequest do: what C11's formula must tell from the real one
bytesRead_withoutPrelude(length) == length

\* DecodeRequest: bytesRead := needReadBytes + len(encodedReq)
bytesRead(length) == needReadBytes + length

\* a faulty DecodeRequest that drops the error of Decode and returns the
\* request as filled so far: what C1's formula must tell from the real one
DecodeRequest_decoded_errIgnored(d, n, at) == Decoded(d.body, n, NoError, at)

\* DecodeRequest from `bytesRead := needReadBytes + len(encodedReq)` on, d
\* being the outcome of Decode(encodedReq, req) and n the value of bytesRead
DecodeRequest_decoded(d, n, at) ==
    IF d.err # NoError THEN Decoded(NoRequest, n, d.err, at)
    ELSE Decoded(d.body, n, NoError, at)

\* a faulty size check with the lower limit left out: what C12's formula must
\* tell from the real one
invalidRequestSize_upperOnly(length) == length > MaxRequestSize

\* DecodeRequest: check request size
invalidRequestSize(length) == length <= 4 \/ length > MaxRequestSize

\* DecodeRequest(r) on the reader at position at
DecodeRequest(rd, at) ==
    LET head == ReadFull(rd, at, needReadBytes) IN
    IF head.err # NoError THEN Decoded(NoRequest, needReadBytes, head.err, head.pos)
    ELSE LET length == SubInt32_4(DecodeLength(rd, at))
             key == DecodeKey(rd, at)
             version == DecodeVersion(rd, at) IN
    IF allocateBody(key, version) = "nil"
    THEN Decoded(NoRequest, length, errUnsupportedProtocol, head.pos)
    ELSE IF invalidRequestSize(length)
    THEN Decoded(NoRequest, length, errFrameSize, head.pos)
    ELSE IF length < 0 THEN Decoded(NoRequest, length, Panic, head.pos)
    ELSE LET body == ReadFull(rd, head.pos, length) IN
    IF body.err # NoError
    THEN WithBuffer(Decoded(NoRequest, length, body.err, body.pos), length)
    ELSE WithBuffer(DecodeRequest_decoded(
                        Decode(Slice(rd, head.pos, body.pos), key, version, length, TRUE),
                        bytesRead(length), body.pos),
                    length)

\* ---------------------------------------------------- the client's bytes

\* the big-endian encodings the client writes
PutInt16(v) == LET u == IF v < 0 THEN v + 65536 ELSE v IN <<u \div 256, u % 256>>
PutInt32(v) ==
    LET hi == v \div 16777216
        lo == v % 16777216 IN
    <<IF hi < 0 THEN hi + 256 ELSE hi, lo \div 65536, (lo \div 256) % 256, lo % 256>>
PutInt64(v) == PutInt32(IF v < 0 THEN -1 ELSE 0) \o PutInt32(v)
PutString(str) == PutInt16(Len(str)) \o str
PutNullString == PutInt16(-1)

RECURSIVE Flatten(_)
Flatten(seqs) == IF seqs = <<>> THEN <<>> ELSE Head(seqs) \o Flatten(Tail(seqs))

\* a request frame: the length L of what follows, key, version, correlation
\* id, client id, body
FrameBytes(key, version, correlationID, clientID, body) ==
    LET rest == PutInt16(key) \o PutInt16(version) \o PutInt32(correlationID)
                \o PutString(clientID) \o body IN
    PutInt32(Len(rest)) \o rest

\* topic and client names, as bytes
TopicT == <<116>>
TopicU == <<117>>
ClientC == <<99>>

\* a records blob of 17 bytes whose byte at magicOffset is the magic
RecordsBlob(magic) == [i \in 1..17 |-> IF i = 17 THEN magic ELSE 0]

\* a produce body: (version >= 3: null transactional id), acks, timeout, topics
ProducePartition(id, blob) == PutInt32(id) \o PutInt32(Len(blob)) \o blob
ProduceTopic(name, partitions) ==
    PutString(name) \o PutInt32(Len(partitions)) \o Flatten(partitions)
ProduceBody(version, topics) ==
    (IF version >= 3 THEN PutNullString ELSE <<>>) \o PutInt16(1) \o PutInt32(10000)
    \o PutInt32(Len(topics)) \o Flatten(topics)

\* a fetch body: replica id, max wait, min bytes, (max bytes), (isolation), topics
FetchPartition(version, id) ==
    PutInt32(id) \o PutInt64(0) \o (IF version >= 5 THEN PutInt64(0) ELSE <<>>)
    \o PutInt32(1024)
FetchTopic(version, name, ids) ==
    PutString(name) \o PutInt32(Len(ids))
    \o Flatten([i \in 1..Len(ids) |-> FetchPartition(version, ids[i])])
FetchBody(version, topics) ==
    PutInt32(-1) \o PutInt32(500) \o PutInt32(1)
    \o (IF version >= 3 THEN PutInt32(1048576) ELSE <<>>)
    \o (IF version >= 4 THEN <<0>> ELSE <<>>)
    \o PutInt32(Len(topics)) \o Flatten(topics)

\* one element of a stream: its bytes and what the client meant by them
Sent(name, key, topics, bytes) ==
    [name |-> name, key |-> key, topics |-> topics, bytes |-> bytes]

\* the frames and fragments a stream is made of
FrameCatalog ==
    { Sent("produce v0", 0, {TopicT},
           FrameBytes(0, 0, 132, ClientC,
               ProduceBody(0, <<ProduceTopic(TopicT, <<ProducePartition(0, RecordsBlob(2))>>)>>))),
      Sent("produce v3", 0, {TopicT, TopicU},
           FrameBytes(0, 3, 133, ClientC,
               ProduceBody(3, <<ProduceTopic(TopicT, <<>>), ProduceTopic(TopicU, <<>>)>>))),
      Sent("fetch v4", 1, {TopicT, TopicU},
           FrameBytes(1, 4, 134, ClientC,
               FetchBody(4, <<FetchTopic(4, TopicT, <<0>>), FetchTopic(4, TopicU, <<0, 1>>)>>))),
      Sent("metadata v1", 3, {},
           FrameBytes(3, 1, 135, ClientC, PutInt32(1) \o PutString(TopicT))),
      Sent("heartbeat v0", 12, {},
           FrameBytes(12, 0, 136, <<>>, <<>>)),
      Sent("produce, bad topic length", 0, {},
           FrameBytes(0, 0, 137, ClientC,
               PutInt16(1) \o PutInt32(10000) \o PutInt32(1) \o PutInt16(-2) \o <<0, 0, 0, 0>>)),
      Sent("produce, trailing bytes", 0, {},
           FrameBytes(0, 0, 138, ClientC,
               ProduceBody(0, <<ProduceTopic(TopicT, <<>>)>>) \o <<0, 0>>)),
      Sent("produce, short body", 0, {},
           FrameBytes(0, 0, 139, ClientC, PutInt16(1) \o PutInt32(10000))),
      Sent("produce, frame too small", 0, {},
           PutInt32(8) \o PutInt16(0) \o PutInt16(0) \o PutInt32(140)),
      Sent("produce, smallest frame read", 0, {},
           PutInt32(9) \o PutInt16(0) \o PutInt16(0) \o PutInt32(141) \o <<0>>),
      Sent("produce, largest frame read, cut short", 0, {},
           PutInt32(MaxRequestSize + 4) \o PutInt16(0) \o PutInt16(0) \o PutInt32(142)),
      Sent("produce, frame too large", 0, {},
           PutInt32(MaxRequestSize + 5) \o PutInt16(0) \o PutInt16(0) \o PutInt32(143)),
      Sent("fetch, negative length", 1, {},
           PutInt32(-1) \o PutInt16(1) \o PutInt16(4)),
      Sent("fetch, length at the bottom of int32", 1, {},
           PutInt32(MinInt32 + 2) \o PutInt16(1) \o PutInt16(4)),
      Sent("produce, records beyond the frame", 0, {},
           FrameBytes(0, 0, 144, ClientC,
               PutInt16(1) \o PutInt32(10000) \o PutInt32(1) \o PutString(TopicT)
               \o PutInt32(1) \o PutInt32(0) \o PutInt32(1000) \o <<0, 0>>)),
      Sent("produce, records of negative length", 0, {},
           FrameBytes(0, 0, 145, ClientC,
               PutInt16(1) \o PutInt32(10000) \o PutInt32(1) \o PutString(TopicT)
               \o PutInt32(1) \o PutInt32(0) \o PutInt32(-1) \o <<0, 0>>)),
      Sent("produce, topic count below zero", 0, {},
           FrameBytes(0, 0, 146, ClientC,
               PutInt16(1) \o PutInt32(10000) \o PutInt32(-1))),
      Sent("produce, no topics", 0, {},
           FrameBytes(0, 0, 147, ClientC, ProduceBody(0, <<>>))),
      Sent("produce, topic twice", 0, {TopicT},
           FrameBytes(0, 0, 148, ClientC,
               ProduceBody(0, <<ProduceTopic(TopicT, <<>>),
                                ProduceTopic(TopicT, <<ProducePartition(1, RecordsBlob(1))>>)>>))),
      Sent("tail of an earlier frame", -1, {}, <<0, 7, 1>>) }

\* frames in one stream, and bytes that may be missing at its end
MaxFrames == 2
MaxCut == 1

\* sequences over S of length at most n
RECURSIVE SeqsUpTo(_, _)
SeqsUpTo(S, n) ==
    IF n = 0 THEN {<<>>}
    ELSE LET shorter == SeqsUpTo(S, n - 1) IN
         shorter \cup {Append(q, x) : q \in shorter, x \in S}

\* the half-flows observed: network endpoints and transport endpoints
Flows == {[net |-> [src |-> "10.0.0.1", dst |-> "10.0.0.9"],
           transport |-> [src |-> "60423", dst |-> "9092"]]}

\* --------------------------------------------------------- stream driver

\* a faulty label, the address with the port as the log lines print it: what
\* C2's formula must tell from the real one
SrcLabel_withPort(f) == f.net.src \o ":" \o f.transport.src

\* h.net.Src().String(): the label of every Storage call
SrcLabel(f) == f.net.src

\* buf.Discard(n) on the reader at pos: the new position and the error
Discard(str, at, n) ==
    IF n < 0 THEN [pos |-> at, err |-> ErrNegativeCount]
    ELSE IF n > Len(str) - at THEN [pos |-> Len(str), err |-> EOF]
    ELSE [pos |-> at + n, err |-> NoError]

\* the switch on req.Body: the Storage calls run makes for a decoded request
relationCalls(f, req) ==
    IF req.Body.kind = "ProduceRequest"
    THEN {<<"AddProducerTopicRelationInfo", SrcLabel(f), t>> : t \in ExtractTopics(req.Body)}
    ELSE IF req.Body.kind = "FetchRequest"
    THEN {<<"AddConsumerTopicRelationInfo", SrcLabel(f), t>> : t \in ExtractTopics(req.Body)}
    ELSE {}

NoDecode == [start |-> 0, res |-> Decoded(NoRequest, 0, NoError, 0)]

InitDriver ==
    /\ flow \in Flows
    /\ frames \in SeqsUpTo(FrameCatalog, MaxFrames)
    /\ \E cut \in 0..MaxCut :
        LET all == Flatten([i \in 1..Len(frames) |-> frames[i].bytes]) IN
        stream = SubSeq(all, 1, IF Len(all) >= cut THEN Len(all) - cut ELSE 0)
    /\ pos = 0
    /\ dpc = "start"
    /\ last = NoDecode
    /\ pending = {}
    /\ callsLog = <<>>
    /\ iterFrom = 0
    /\ logged = <<>>
    /\ discards = 0

\* run, up to the loop: the buffered reader, AddActiveConnectionsTotal(src)
run_Start ==
    /\ dpc = "start"
    /\ callsLog' = Append(callsLog, <<"AddActiveConnectionsTotal", SrcLabel(flow)>>)
    /\ dpc' = "decode"
    /\ UNCHANGED <<flow, frames, stream, pos, last, pending, iterFrom, logged,
                   discards, regVars, codVars>>

\* run: req, readBytes, err := kafka.DecodeRequest(buf)
run_DecodeRequest ==
    /\ dpc = "decode"
    /\ last' = [start |-> pos, res |-> DecodeRequest(stream, pos)]
    /\ pos' = last'.res.pos
    /\ iterFrom' = Len(callsLog)
    /\ dpc' = "handle"
    /\ UNCHANGED <<flow, frames, stream, pending, callsLog, logged, discards, regVars, codVars>>

\* a faulty test that takes the end of the stream inside a frame for an
\* error to log and skip: what C14's formula must tell from the real one
endOfStream_eofOnly(err) == err = EOF

\* a faulty test that takes every error for the end of the stream, so that
\* the driver returns with bytes unread: what C32's formula must tell from
\* the real one
endOfStream_anyError(err) == err # NoError

\* run: err == io.EOF || err == io.ErrUnexpectedEOF
endOfStream(err) == err \in {EOF, ErrUnexpectedEOF}

\* run: err == io.EOF || err == io.ErrUnexpectedEOF: return
run_EOF ==
    /\ dpc = "handle"
    /\ endOfStream(last.res.err)
    /\ dpc' = "done"
    /\ UNCHANGED <<flow, frames, stream, pos, last, pending, callsLog, iterFrom,
                   logged, discards, regVars, codVars>>

\* the lines of run's error branch
unableToRead == "unable to read request to Broker - skipping packet"
couldNotDiscard == "could not discard"

\* run's error branch: what it leaves of the reader position, the lines
\* printed and the Discard calls made, d being what buf.Discard(readBytes)
\* returns
skipPacket(err, d, at, lines, n) ==
    IF IsPacketDecodingError(err)
    THEN [pos |-> d.pos,
          logged |-> IF d.err # NoError
                     THEN lines \o <<unableToRead, couldNotDiscard>>
                     ELSE Append(lines, unableToRead),
          discards |-> n + 1]
    ELSE [pos |-> at, logged |-> Append(lines, unableToRead), discards |-> n]

\* a faulty error branch that gives the stream up on any error: what C15's
\* formula must tell from the real one
run_Error_returns ==
    /\ dpc = "handle"
    /\ last.res.err \notin {NoError, Panic}
    /\ ~endOfStream(last.res.err)
    /\ logged' = Append(logged, unableToRead)
    /\ dpc' = "done"
    /\ UNCHANGED <<flow, frames, stream, pos, last, pending, callsLog, iterFrom,
                   discards, regVars, codVars>>

\* run: err != nil: log, discard readBytes on a packet decoding error, continue
run_Error ==
    /\ dpc = "handle"
    /\ last.res.err \notin {NoError, Panic}
    /\ ~endOfStream(last.res.err)
    /\ LET after == skipPacket(last.res.err, Discard(stream, pos, last.res.n),
                               pos, logged, discards) IN
        /\ pos' = after.pos
        /\ logged' = after.logged
        /\ discards' = after.discards
    /\ dpc' = "decode"
    /\ UNCHANGED <<flow, frames, stream, last, pending, callsLog, iterFrom, regVars, codVars>>

\* a faulty switch that hands the Storage calls to another goroutine and goes
\* on to the next DecodeRequest: what C17's formula must tell from the real
\* one
run_Request_async ==
    /\ dpc = "handle"
    /\ last.res.err = NoError
    /\ pending' = pending \cup relationCalls(flow, last.res.req)
    /\ dpc' = "decode"
    /\ UNCHANGED <<flow, frames, stream, pos, last, callsLog, iterFrom, logged,
                   discards, regVars, codVars>>

\* run: a request was decoded: the switch on its body
run_Request ==
    /\ dpc = "handle"
    /\ last.res.err = NoError
    /\ pending' = relationCalls(flow, last.res.req)
    /\ dpc' = IF pending' = {} THEN "decode" ELSE "register"
    /\ UNCHANGED <<flow, frames, stream, pos, last, callsLog, iterFrom, logged,
                   discards, regVars, codVars>>

\* run: one turn of the loop over ExtractTopics(): one Storage call
run_Register(c) ==
    /\ dpc = "register"
    /\ c \in pending
    /\ callsLog' = Append(callsLog, c)
    /\ pending' = pending \ {c}
    /\ dpc' = IF pending' = {} THEN "decode" ELSE "register"
    /\ UNCHANGED <<flow, frames, stream, pos, last, iterFrom, logged, discards, regVars, codVars>>

NextDriver ==
    \/ run_Start
    \/ run_DecodeRequest
    \/ run_EOF
    \/ run_Error
    \/ run_Request
    \/ \E c \in pending : run_Register(c)

\* the driver alone: its Storage calls are recorded, the registry is at rest
RegistryAtRest ==
    /\ metricName = "producer_topic_relation_info"
    /\ gauge = <<>>
    /\ relations = <<>>
    /\ rels = <<>>
    /\ mux = Unlocked
    /\ obs = [o \in Observers |-> [pc |-> "idle", labels |-> <<>>]]
    /\ exp = [pc |-> "recv", labels |-> <<>>]
    /\ calls = 0
    /\ nobs = [l \in AllLabels |-> 0]
    /\ sinceObs = [l \in AllLabels |-> MaxExpire]

InitDriverAlone == InitDriver /\ RegistryAtRest /\ NoCodec

SpecDriver == InitDriverAlone /\ [][NextDriver]_vars

\* ------------------------------------- stream drivers with the registry

\* run, up to the call: AddActiveConnectionsTotal(src) begins, metric.inc
\* writing the gauge before metric.update takes the mutex; the driver is
\* observer 1 of the gauge
stream_Start ==
    /\ dpc = "start"
    /\ obs[1].pc = "idle"
    /\ calls < MaxCalls
    /\ callsLog' = Append(callsLog, <<"AddActiveConnectionsTotal", SrcLabel(flow)>>)
    /\ gauge' = GaugeOp(metricName, gauge, <<SrcLabel(flow)>>)
    /\ obs' = [obs EXCEPT ![1] = [pc |-> "lock", labels |-> <<SrcLabel(flow)>>]]
    /\ calls' = calls + 1
    /\ dpc' = "adding"
    /\ UNCHANGED <<metricName, relations, rels, mux, exp, nobs, sinceObs, flow,
                   frames, stream, pos, last, pending, iterFrom, logged, discards,
                   codVars>>

\* AddActiveConnectionsTotal has returned: run enters its loop
stream_Loop ==
    /\ dpc = "adding"
    /\ obs[1].pc = "idle"
    /\ dpc' = "decode"
    /\ UNCHANGED <<flow, frames, stream, pos, last, pending, callsLog, iterFrom,
                   logged, discards, regVars, codVars>>

\* the driver of another half-flow of the same client begins: its
\* AddActiveConnectionsTotal(src), as observer o of the gauge
other_Start(o) ==
    /\ o # 1
    /\ metric_set(o, <<SrcLabel(flow)>>)

NextStreams ==
    \/ stream_Start
    \/ stream_Loop
    \/ run_DecodeRequest
    \/ run_EOF
    \/ run_Error
    \/ run_Request
    \/ \E c \in pending : run_Register(c)
    \/ \E o \in Observers : other_Start(o)
    \/ RegistrySteps

\* the streams the driver runs on next to other drivers: a request it
\* registers of each kind, one it skips, one it fails to decode
StreamSamples == {"produce v3", "fetch v4", "heartbeat v0", "produce, short body"}

\* the gauge of active connections, nothing observed yet, and a driver about
\* to run on a stream of one frame
InitStreams ==
    /\ InitRegistry
    /\ metricName = "active_connections_total"
    /\ InitDriver
    /\ Len(frames) = 1
    /\ frames[1].name \in StreamSamples
    /\ stream = frames[1].bytes
    /\ NoCodec

SpecStreams == InitStreams /\ [][NextStreams]_vars

\* the Go scheduler runs the driver's goroutine as long as it can take a step:
\* its reads return at once, the bytes and the end of the stream being there
\* DecodeRequest returns: run_DecodeRequest is enabled exactly where dpc is
\* "decode" and leaves it at "handle", so that its weak fairness is that the
\* driver is not at "decode" for ever
DecodeRequest_returns == []<>(dpc # "decode")

FairDriver ==
    /\ SpecDriver
    /\ WF_vars(run_Start)
    /\ DecodeRequest_returns
    /\ WF_vars(run_EOF)
    /\ WF_vars(run_Error)
    /\ WF_vars(run_Request)
    /\ WF_vars(\E c \in pending : run_Register(c))

\* ------------------------------------------------ the decoder on its own

\* calls made on one decoder, and the lengths handed to getRawBytes and
\* discard
MaxGets == 3
MaxLength == 3

\* n bytes of value b
Fill(n, b) == [i \in 1..n |-> b]

\* the buffers a decoder is made on: empty and short ones, strings with a
\* length of -1, below -1 and beyond the buffer, arrays with a count of zero,
\* below zero and beyond the buffer, arrays at and above the limit of
\* getArrayLength, partition entries of a ProduceRequest whose records are
\* there, are too short to have a magic byte, end beyond the buffer or have a
\* length below zero, bodies of a ProduceRequest without and with a
\* transactional id, whole and cut short
CodecBuffers ==
    << <<>>,
      <<0>>,
      PutInt16(-1) \o <<7>>,
      PutInt16(-2) \o <<7, 7>>,
      PutInt16(5) \o <<1, 2>>,
      PutString(TopicT) \o PutNullString,
      PutInt32(0) \o PutInt32(7),
      PutInt32(-1) \o PutInt32(7) \o PutInt32(8),
      PutInt32(MinInt32) \o PutInt32(7),
      PutInt32(2) \o PutInt32(7) \o PutInt32(-8),
      PutInt32(3) \o <<0, 0>>,
      PutInt32(1) \o PutInt64(-5),
      PutInt32(2) \o PutString(TopicT) \o PutString(TopicU),
      PutInt32(2 * MaxUint16) \o Fill(2 * MaxUint16, 128),
      PutInt32(2 * MaxUint16 + 1) \o Fill(2 * MaxUint16 + 1, 128),
      Fill(magicOffset, 2),
      ProducePartition(0, RecordsBlob(2)) \o <<9>>,
      ProducePartition(1, <<1, 2>>) \o <<3>>,
      PutInt32(1) \o PutInt32(5) \o <<1, 2>>,
      PutInt32(1) \o PutInt32(-1) \o <<1, 2>>,
      ProduceBody(0, <<>>),
      ProduceBody(3, <<ProduceTopic(TopicT, <<>>)>>),
      PutString(ClientC) \o PutInt16(-1) \o PutInt32(10000) \o PutInt32(0),
      PutInt16(1) \o PutInt32(10000) \o <<0, 0>> >>

\* the records blobs: one for every value of the byte at magicOffset
RecordsBlobs == [k \in 1..256 |-> RecordsBlob(k - 1)]

\* every buffer a decoder is made on; RealDecoder.raw is kept as the place of
\* its buffer in this list
Buffers == CodecBuffers \o RecordsBlobs

\* RealDecoder.raw: the bytes of the decoder's buffer
Raw == IF helper.raw = 0 THEN <<>> ELSE Buffers[helper.raw]

InitCodec ==
    /\ helper \in {[raw |-> k, off |-> 0] : k \in 1..Len(Buffers)}
    /\ called = NoCall
    /\ ret = NoReturn

\* the calls after which the decoder is not followed further: those that make
\* a decoder on a part of the buffer (what follows them on the parent is what
\* follows getRawBytes or no call at all, and is followed up from there) and
\* the Decode methods of a request body
LastCalls == {"getSubset", "peek", "peekInt8", "ProduceRequest.partition",
              "ProduceRequest.Decode"}

\* the decoder is inside a Decode method that goes on calling it: Decode has
\* not returned, no call has returned an error (every Decode method returns
\* the first error it gets)
Decoding ==
    /\ called.method # "Decode"
    /\ called.method \notin LastCalls
    /\ ret.err = NoError
    /\ called.nth < MaxGets

\* a call of a method on the decoder, r being its outcome
Call(method, arg, r) ==
    /\ helper' = [helper EXCEPT !.off = r.off]
    /\ called' = [method |-> method, arg |-> arg, at |-> helper.off,
                  nth |-> called.nth + 1]
    /\ ret' = [val |-> r.val, err |-> r.err]
    /\ UNCHANGED <<regVars, drvVars>>

\* the methods without an argument that PacketDecoder dispatches
GetMethods == {"getInt8", "getInt16", "getInt32", "getInt64", "getArrayLength",
               "getString", "getNullableString"}

\* pd.getInt8() .. pd.getNullableString()
rd_get(method) ==
    /\ Decoding
    /\ Call(method, 0, PacketDecoder(method, Raw, helper.off))

\* pd.getRawBytes(length)
rd_getRawBytes(length) ==
    /\ Decoding
    /\ Call("getRawBytes", length, getRawBytes(Raw, helper.off, length))

\* pd.discard(length)
rd_discard(length) ==
    /\ Decoding
    /\ Call("discard", length, Result(discard(helper.off, length), <<>>, NoError))

\* pd.getInt32Array()
rd_getInt32Array ==
    /\ Decoding
    /\ Call("getInt32Array", 0, getInt32Array(Raw, helper.off))

\* pd.getInt64Array()
rd_getInt64Array ==
    /\ Decoding
    /\ Call("getInt64Array", 0, getInt64Array(Raw, helper.off))

\* pd.getStringArray(), its make given the memory or not
rd_getStringArray(allocated) ==
    /\ Decoding
    /\ Call("getStringArray", 0, getStringArray(Raw, helper.off, allocated))

\* records.decode(recordsDecoder) on a decoder getSubset has just made: the
\* records type it sets and the error it returns
rd_Records_decode ==
    /\ Decoding
    /\ called = NoCall
    /\ Call("Records.decode", 0,
            Result(helper.off, setTypeFromMagic(Raw).val, Records_decode(Raw)))

\* pd.getSubset(length): the value is the buffer of the decoder returned
rd_getSubset(length) ==
    /\ Decoding
    /\ Call("getSubset", length, getSubset(Raw, helper.off, length))

\* pd.peek(offset, length): the value is the buffer of the decoder returned
rd_peek(offset, length) ==
    /\ Decoding
    /\ Call("peek", <<offset, length>>, peek(Raw, helper.off, offset, length))

\* pd.peekInt8(offset)
rd_peekInt8(offset) ==
    /\ Decoding
    /\ Call("peekInt8", offset, peekInt8(Raw, helper.off, offset))

\* the locals of ProduceRequest.Decode at the head of its loop over the
\* partitions of a topic that has one partition entry
PartitionLocals ==
    [Version |-> 0, TransactionalID |-> NilString, RequiredAcks |-> 0, Timeout |-> 0,
     topicCount |-> 1, records |-> With(<<>>, TopicT, {}), topic |-> TopicT,
     partitionCount |-> 1, partition |-> 0, size |-> 0, recordsDecoder |-> <<>>]

\* what one turn of the loop over the partitions leaves: the cursor, the
\* partitions put into r.records[topic] and the error returned
PartitionOutcome(s) == Result(s.off, s.v.records[TopicT], s.err)

\* ProduceRequest.Decode, one turn of the loop over the partitions: the
\* partition id, the records size, getSubset and records.decode
rd_ProducePartition ==
    /\ Decoding
    /\ Call("ProduceRequest.partition", 0,
            PartitionOutcome(ProducePartitions(Raw, Running(helper.off, PartitionLocals), 0)))

\* what ProduceRequest.Decode leaves: the cursor, the fields of the request
\* and the error returned
ProduceOutcome(s) ==
    Result(s.off,
           [TransactionalID |-> s.v.TransactionalID, RequiredAcks |-> s.v.RequiredAcks,
            Timeout |-> s.v.Timeout, topics |-> DOMAIN s.v.records],
           s.err)

\* (r *ProduceRequest).Decode(pd, version)
rd_ProduceRequest_Decode(version) ==
    /\ Decoding
    /\ Call("ProduceRequest.Decode", version,
            ProduceOutcome(ProduceRequest_run(Raw, helper.off, version)))

\* Decode(buf, in) with buf == nil: nil is returned, in.Decode is not called
Decode_nil ==
    /\ called = NoCall
    /\ Raw = <<>>
    /\ Call("Decode", 0, Result(helper.off, <<>>, NoError))

\* Decode(buf, in) after in.Decode(&helper) returned what the last call on
\* the decoder returned (nil, if it made none): the error Decode returns
Decode_return ==
    /\ called.method # "Decode"
    /\ Call("Decode", 0,
            Result(helper.off, <<>>,
                   Decode_checkLength(BodyResult(helper.off, ret.err, NoBody),
                                      Raw).err))

\* the versions a ProduceRequest is decoded with: on both sides of 3
ProduceVersions == {0, 2, 3, 7}

\* the offsets peeked at: the next bytes and the magic byte of a records blob
PeekOffsets == {0, 1, magicOffset}

NextCodec ==
    \/ \E method \in GetMethods : rd_get(method)
    \/ \E length \in -1..MaxLength : rd_getRawBytes(length)
    \/ \E length \in 1..MaxLength : rd_discard(length)
    \/ rd_getInt32Array
    \/ rd_getInt64Array
    \/ \E allocated \in BOOLEAN : rd_getStringArray(allocated)
    \/ rd_Records_decode
    \/ \E length \in -1..MaxLength : rd_getSubset(length)
    \/ \E offset \in PeekOffsets, length \in 0..MaxLength : rd_peek(offset, length)
    \/ \E offset \in PeekOffsets : rd_peekInt8(offset)
    \/ rd_ProducePartition
    \/ \E version \in ProduceVersions : rd_ProduceRequest_Decode(version)
    \/ Decode_nil
    \/ Decode_return

\* the decoder alone: the registry and the driver are at rest
InitCodecAlone == InitCodec /\ RegistryAtRest /\ NoDriver

SpecCodec == InitCodecAlone /\ [][NextCodec]_vars

\* ------------------------------------------------------ registry: claims

\* the gauges that metric.set writes (value 1), as opposed to metric.inc
IsRelationGauge == metricName # "active_connections_total"

\* no timer has fired yet: every relation's timer is unset or armed with an
\* empty channel, and every relation goroutine is before its receive
NoTimerFired ==
    \A i \in DOMAIN rels :
        /\ rels[i].pc \in {"start", "wait"}
        /\ ~rels[i].timer.c
        /\ (rels[i].timer = NoTimer \/ rels[i].timer.active)

\* label tuples with a completed observation
Completed == {l \in AllLabels : nobs[l] >= 1}

\* every registry operation about l has run to its end: no observer is inside
\* set/update for l, no relation of l is handing its labels over, and
\* runExpiration is not in the middle of evicting l
OpsCompleted(l) ==
    /\ \A o \in Observers : obs[o].pc # "idle" => obs[o].labels # l
    /\ \A i \in DOMAIN rels : rels[i].pc = "send" => rels[i].labels # l
    /\ exp.pc # "recv" => exp.labels # l

\* C3: eviction liveness - once observations have stopped, every label tuple
\* is eventually, and from then on, absent from the gauge and from the
\* relation table (under fair scheduling of goroutines and timers)
C3_EvictionLiveness ==
    \A l \in AllLabels :
        <>[](l \notin DOMAIN gauge /\ genLabelKey(l) \notin DOMAIN relations)

C5_GaugeNeverLeftWithoutTimer ==
    \A l \in AllLabels :
        (OpsCompleted(l) /\ l \in DOMAIN gauge)
            => /\ genLabelKey(l) \in DOMAIN relations
               /\ rels[relations[genLabelKey(l)]].pc # "done"

\* C6: whenever the relation table has an entry for a label tuple, the gauge
\* has a series for that tuple
C6_RelationImpliesGauge ==
    \A k \in DOMAIN relations : rels[relations[k]].labels \in DOMAIN gauge

\* C7: with no timer fired, whatever number of set calls were made for a label
\* tuple, its gauge is 1 and exactly one relation exists for it, the one the
\* table holds
C7_Idempotent ==
    (IsRelationGauge /\ NoTimerFired) =>
        \A l \in Completed :
            /\ l \in DOMAIN gauge
            /\ gauge[l] = 1
            /\ genLabelKey(l) \in DOMAIN relations
            /\ {i \in DOMAIN rels : rels[i].labels = l} = {relations[genLabelKey(l)]}

\* C7 witness: two completed observations of one label tuple, no timer fired
C7_Witness ==
    /\ IsRelationGauge
    /\ NoTimerFired
    /\ \E l \in AllLabels : nobs[l] >= 2

\* C8: with no timer fired, concurrent set calls for N distinct label tuples
\* leave N table entries, N relations and N series at value 1: none is lost
C8_NoLostUpdates ==
    (IsRelationGauge /\ NoTimerFired /\ \A o \in Observers : obs[o].pc = "idle") =>
        /\ DOMAIN gauge = Completed
        /\ \A l \in Completed : gauge[l] = 1
        /\ Cardinality(DOMAIN relations) = Cardinality(Completed)
        /\ Len(rels) = Cardinality(Completed)

\* the overlap C8 is about: two observers inside set for different label
\* tuples at once, one holding the metric mutex and the other waiting for it
C8_Overlap ==
    /\ IsRelationGauge
    /\ NoTimerFired
    /\ \E o, p \in Observers :
        /\ obs[o].pc = "unlock"
        /\ obs[p].pc = "lock"
        /\ obs[o].labels # obs[p].labels

\* C8 witness: two distinct label tuples observed by the observers, every
\* call returned, both series and both relations there
C8_Witness ==
    /\ IsRelationGauge
    /\ NoTimerFired
    /\ \A o \in Observers : obs[o].pc = "idle"
    /\ Cardinality(Completed) >= 2
    /\ Cardinality(DOMAIN gauge) >= 2

\* ------------------------------------------------- stream driver: claims

\* the Storage calls made since this iteration's DecodeRequest
IterationCalls == {callsLog[i] : i \in (iterFrom + 1)..Len(callsLog)}

\* the two relation calls, as opposed to AddActiveConnectionsTotal
RelationMethods == {"AddProducerTopicRelationInfo", "AddConsumerTopicRelationInfo"}

\* this iteration's DecodeRequest found its 8 bytes of prelude in the stream
PreludeRead == Len(stream) - last.start >= needReadBytes

\* the length L and the key the prelude of this iteration's frame declares
DeclaredLength == DecodeLength(stream, last.start)
DeclaredKey == DecodeKey(stream, last.start)

\* this iteration's frame is in the stream to its last byte: the 4 bytes of
\* L and the L bytes they announce, the prelude's key and version among them
FrameDelivered ==
    /\ PreludeRead
    /\ DeclaredLength >= 4
    /\ last.start + 4 + DeclaredLength <= Len(stream)

\* what Decode returns on the bytes of this iteration's frame that follow the
\* prelude
DecodeOfFrame ==
    Decode(Slice(stream, last.start + 8, last.start + 4 + DeclaredLength),
           DeclaredKey, DecodeVersion(stream, last.start), DeclaredLength - 4, TRUE)

\* C1: every relation call the driver makes is made in an iteration whose
\* DecodeRequest returned no error and a request with a Produce or Fetch
\* body, the decode of the frame itself having returned no error
C1_NoRegistrationAfterDecodeError ==
    [][(Len(callsLog') > Len(callsLog)
           /\ callsLog'[Len(callsLog')][1] \in RelationMethods)
       => /\ Len(callsLog) >= iterFrom
          /\ last.res.err = NoError
          /\ last.res.req # NoRequest
          /\ last.res.req.Body.kind \in {"ProduceRequest", "FetchRequest"}
          /\ FrameDelivered
          /\ DecodeOfFrame.err = NoError]_vars

\* C1 witness: the driver is registering the topics of the second frame of
\* its stream, the decode of the first having returned an error
C1_Witness ==
    /\ dpc = "register"
    /\ Len(frames) = 2
    /\ frames[1].name = "produce, short body"
    /\ last.start = Len(frames[1].bytes)
    /\ Len(callsLog) > iterFrom

\* the relation calls C2 expects for a decoded request
ExpectedCalls(req) ==
    IF req.Key = 0
    THEN {<<"AddProducerTopicRelationInfo", flow.net.src, t>> : t \in DOMAIN req.Body.records}
    ELSE IF req.Key = 1
    THEN {<<"AddConsumerTopicRelationInfo", flow.net.src, t>> : t \in DOMAIN req.Body.records}
    ELSE {}

\* C2: once the driver is through with a decoded request, the calls it made
\* for it are one AddProducerTopicRelationInfo(src_ip, t) per topic t of a
\* request with key 0, one AddConsumerTopicRelationInfo(src_ip, t) per topic
\* t of a request with key 1, nothing for any other request, the label
\* being the flow's source address without the port
C2_RegistersEveryTopic ==
    (dpc = "decode" /\ last.res.req # NoRequest /\ last.res.err = NoError) =>
        /\ IterationCalls = ExpectedCalls(last.res.req)
        /\ Len(callsLog) - iterFrom = Cardinality(ExpectedCalls(last.res.req))

\* C2 witness: the driver is through with a Produce request of two topics,
\* two calls made for it, after a Fetch request whose topics it registered
C2_Witness ==
    /\ dpc = "decode"
    /\ last.res.err = NoError
    /\ last.res.req # NoRequest
    /\ last.res.req.Key = 0
    /\ Len(callsLog) - iterFrom = 2
    /\ \E i \in 1..iterFrom : callsLog[i][1] = "AddConsumerTopicRelationInfo"

\* this iteration handled a frame of a kind the sniffer does not decode,
\* delivered whole
UnknownKeyFrame == FrameDelivered /\ DeclaredKey \notin {0, 1}

\* C9: once the driver is through with a frame whose key is neither 0 nor 1
\* and whose prelude declares the length L, it has consumed L + 4 bytes from
\* where the frame began, has made no Storage call, and its next
\* DecodeRequest starts there, at the first byte after the frame
C9_UnknownKeyFrameSkipped ==
    (dpc = "decode" /\ last # NoDecode /\ UnknownKeyFrame) =>
        /\ pos = last.start + DeclaredLength + 4
        /\ Len(callsLog) = iterFrom

\* C9 witness: the driver is through with a Metadata frame that another
\* frame follows, and stands at the first byte of that one
C9_Witness ==
    /\ dpc = "decode"
    /\ last # NoDecode
    /\ UnknownKeyFrame
    /\ Len(frames) = 2
    /\ frames[1].name = "metadata v1"
    /\ last.start = 0
    /\ pos = Len(frames[1].bytes)
    /\ pos < Len(stream)

InlineDecodeOfFrame ==
    Request_Decode(Slice(stream, last.start + 4, last.start + 4 + DeclaredLength),
                   0, 0, DeclaredLength, FALSE)

\* where the k-th element the client sent begins in the stream
FrameStart(k) == Len(Flatten([i \in 1..(k - 1) |-> frames[i].bytes]))

\* this iteration's DecodeRequest began at the first byte of a frame the
\* client sent, delivered whole, and not in the middle of one
SentFrame ==
    \E k \in 1..Len(frames) :
        /\ FrameStart(k) = last.start
        /\ frames[k].key = DeclaredKey
        /\ FrameStart(k) + Len(frames[k].bytes) <= Len(stream)

C11_ConsumesAndReportsFrame ==
    (dpc = "handle" /\ last.res.err = NoError /\ last.res.req # NoRequest) =>
        /\ FrameDelivered
        /\ pos = last.start + DeclaredLength + 4
        /\ last.res.n = DeclaredLength + 4

\* C11 witness: DecodeRequest has just returned the Fetch request that
\* follows a Produce frame in the stream, another byte of the stream and more
\* lying before it
C11_Witness ==
    /\ dpc = "handle"
    /\ last.res.err = NoError
    /\ last.res.req # NoRequest
    /\ last.res.req.Key = 1
    /\ last.start > 0
    /\ last.res.n = Len(frames[2].bytes)

\* DecodeRequest accepted the length this iteration's prelude declares: it
\* did not return the frame-size error
LengthAccepted == last.res.err # errFrameSize

\* C12 as stated: DecodeRequest accepts the declared length L if and only if
\* 4 < L <= MaxRequestSize
C12_AcceptsBetween4AndMax ==
    (dpc = "handle" /\ PreludeRead) =>
        (LengthAccepted <=> (4 < DeclaredLength /\ DeclaredLength <= MaxRequestSize))

\* C12 amended: for a frame of key 0 or 1 DecodeRequest accepts the declared
\* length L if and only if 8 < L <= MaxRequestSize + 4, the limits being
\* those of L - 4; every other L, the negative ones and those at the bottom
\* of int32 included, yields the frame-size error with no byte read after
\* the prelude; for any other key the error is "unsupported protocol"
\* whatever L is
C12_AcceptsBodyBetween4AndMax ==
    (dpc = "handle" /\ PreludeRead) =>
        /\ DeclaredKey \in {0, 1} =>
              (LengthAccepted <=>
                  (8 < DeclaredLength /\ DeclaredLength <= MaxRequestSize + 4))
        /\ DeclaredKey \notin {0, 1} => last.res.err = errUnsupportedProtocol
        /\ ~LengthAccepted =>
              /\ IsPacketDecodingError(last.res.err)
              /\ last.res.req = NoRequest
              /\ pos = last.start + needReadBytes

\* C12 witness: DecodeRequest has just returned the frame-size error for a
\* frame of key 0 that declares L = 8, after it had accepted L = 9 for the
\* frame before
C12_Witness ==
    /\ dpc = "handle"
    /\ PreludeRead
    /\ DeclaredKey = 0
    /\ DeclaredLength = 8
    /\ ~LengthAccepted
    /\ Len(frames) = 2
    /\ frames[1].name = "produce, smallest frame read"

\* C13: on every stream, the bytes delivered being finite and followed by
\* end-of-stream, the driver returns; every DecodeRequest either moves the
\* reader forward by at least one byte or returns EOF or unexpected EOF, and
\* the driver returns on these two
C13_DriverExits ==
    /\ <>(dpc = "done")
    /\ [][dpc' = "handle" =>
              \/ pos' > pos
              \/ last'.res.err \in {EOF, ErrUnexpectedEOF}]_vars
    /\ [][(dpc = "handle" /\ last.res.err \in {EOF, ErrUnexpectedEOF})
              => dpc' = "done"]_vars

\* C13 witness: the driver has returned at the end of a stream of two
\* frames, of which it skipped the first after an error and registered the
\* second
C13_Witness ==
    /\ dpc = "done"
    /\ Len(frames) = 2
    /\ pos = Len(stream)
    /\ Len(logged) > 0
    /\ Len(callsLog) > 1

\* the stream is one frame cut short: the 8 bytes of its prelude are
\* delivered, the length L they declare reaches beyond the bytes delivered
\* before end-of-stream
TruncatedFrame ==
    /\ Len(frames) = 1
    /\ Len(stream) >= needReadBytes
    /\ DecodeLength(stream, 0) + 4 > Len(stream)

\* the prelude of that frame is one DecodeRequest goes on to read the body of
BodyRead ==
    /\ DecodeKey(stream, 0) \in {0, 1}
    /\ 8 < DecodeLength(stream, 0)
    /\ DecodeLength(stream, 0) <= MaxRequestSize + 4

\* the relation calls made so far
RelationCalls == {i \in 1..Len(callsLog) : callsLog[i][1] \in RelationMethods}

\* C14 as stated: the driver has returned from a stream that is one frame
\* cut short having logged one warning, made one resync and registered no
\* observation
C14_TruncatedFrameWarnsAndResyncs ==
    (dpc = "done" /\ TruncatedFrame) =>
        /\ Len(logged) = 1
        /\ discards = 1
        /\ RelationCalls = {}

\* C14 amended: the driver returns from a stream that is one frame cut
\* short with no observation registered, the reader at the end of the
\* stream; where DecodeRequest went on to read the body (key 0 or 1, length
\* accepted) it returned on the unexpected EOF of that read with nothing
\* logged and no resync; where DecodeRequest refused the prelude it logged
\* the warning, made one Discard that ran into the end of the stream, logged
\* that too, and returned on the EOF of the next DecodeRequest
C14_TruncatedFrameExitsWithoutObservation ==
    (dpc = "done" /\ TruncatedFrame) =>
        /\ RelationCalls = {}
        /\ pos = Len(stream)
        /\ BodyRead =>
              /\ logged = <<>>
              /\ discards = 0
              /\ last.start = 0
              /\ last.res.err \in {EOF, ErrUnexpectedEOF}
        /\ ~BodyRead =>
              /\ logged = <<unableToRead, couldNotDiscard>>
              /\ discards = 1
              /\ last.start = Len(stream)
              /\ last.res.err = EOF

\* C14 witness: the driver has returned from a stream that is a Produce
\* frame short of its last byte
C14_Witness ==
    /\ dpc = "done"
    /\ TruncatedFrame
    /\ BodyRead
    /\ frames[1].name = "produce v0"
    /\ Len(stream) = Len(frames[1].bytes) - 1
    /\ last.res.err = ErrUnexpectedEOF

\* DecodeRequest refused this iteration's frame at its prelude
RefusedAtPrelude == last.res.err \in {errUnsupportedProtocol, errFrameSize}

\* C15: from a DecodeRequest that returned a packet-decoding error the driver
\* goes to its next DecodeRequest on the same stream: it does not return,
\* makes no Storage call, logs the error, and calls Discard once with the
\* count DecodeRequest returned, which leaves the reader at or after the
\* place the failed decode left it and, for a frame refused at its prelude
\* and delivered whole, at the first byte after the frame
C15_ResyncsAfterPacketDecodingError ==
    [][(dpc = "handle" /\ IsPacketDecodingError(last.res.err)) =>
          /\ dpc' = "decode"
          /\ stream' = stream
          /\ callsLog' = callsLog
          /\ pending' = {}
          /\ discards' = discards + 1
          /\ Len(logged') > Len(logged)
          /\ logged'[Len(logged) + 1] = unableToRead
          /\ pos' >= pos
          /\ pos' <= Len(stream)
          /\ (RefusedAtPrelude /\ FrameDelivered)
                => pos' = last.start + 4 + DeclaredLength]_vars

\* C15 witness: the driver stands before its next DecodeRequest, bytes of
\* the stream before it, having skipped a frame whose body did not decode
C15_Witness ==
    /\ dpc = "decode"
    /\ IsPacketDecodingError(last.res.err)
    /\ ~RefusedAtPrelude
    /\ discards = 1
    /\ pos < Len(stream)

\* DecodeRequest returned an error that is neither of the two EOF errors nor
\* a packet-decoding error
OtherError ==
    /\ last.res.err # NoError
    /\ ~endOfStream(last.res.err)
    /\ ~IsPacketDecodingError(last.res.err)

\* C16: after a DecodeRequest that returned an error that is neither EOF,
\* unexpected EOF nor a packet-decoding error the driver leaves its loop: it
\* returns at once, or at the latest its next DecodeRequest finds the stream
\* at its end and it returns then, no further frame being read
C16_OtherErrorEndsLoop ==
    [][/\ (dpc = "handle" /\ OtherError) => dpc' \in {"done", "decode"}
       /\ (dpc = "decode" /\ last # NoDecode /\ OtherError)
              => endOfStream(last'.res.err)]_vars

\* C17: the observations of one half-flow follow the order of its bytes:
\* each relation call is made between the DecodeRequest that returned its
\* frame and the next DecodeRequest and is one of the calls of that frame,
\* and a DecodeRequest starts only when every call of the frame before is
\* made, at a byte after the one that frame started at
C17_ObservationsInFrameOrder ==
    [][/\ (Len(callsLog') > Len(callsLog) /\ dpc # "start") =>
              /\ dpc = "register"
              /\ last' = last
              /\ callsLog' = Append(callsLog, callsLog'[Len(callsLog')])
              /\ callsLog'[Len(callsLog')] \in ExpectedCalls(last.res.req)
              /\ callsLog'[Len(callsLog')] \notin IterationCalls
       /\ last' # last =>
              /\ dpc = "decode"
              /\ pending = {}
              /\ last # NoDecode =>
                    /\ last'.start > last.start
                    /\ last.res.err = NoError =>
                          IterationCalls = ExpectedCalls(last.res.req)]_vars

\* C17 witness: the driver is registering the topics of the second frame of
\* its stream, the calls for the topics of the first all made
C17_Witness ==
    /\ dpc = "register"
    /\ last.start > 0
    /\ iterFrom > 1
    /\ Len(callsLog) > iterFrom
    /\ pending # {}

\* the AddActiveConnectionsTotal calls the driver has made
ActiveConnectionsCalls ==
    {i \in 1..Len(callsLog) : callsLog[i][1] = "AddActiveConnectionsTotal"}

\* no series of the gauge has been deleted: no relation has handed its
\* labels to runExpiration, or one has and runExpiration has yet to delete
NoEviction ==
    LET sent == {i \in DOMAIN rels : rels[i].pc = "done"} IN
    \/ sent = {}
    \/ Cardinality(sent) = 1 /\ exp.pc = "del"

\* C18: the driver calls AddActiveConnectionsTotal with its source address
\* once, before its first DecodeRequest, and the call has returned when that
\* DecodeRequest begins; it makes no other such call; as long as no series
\* was evicted, the gauge for the address equals the number of drivers that
\* have begun for it
C18_RegistersConnectionOnce ==
    /\ dpc = "start" => (callsLog = <<>> /\ last = NoDecode)
    /\ dpc = "adding" => last = NoDecode
    /\ dpc # "start" =>
          /\ ActiveConnectionsCalls = {1}
          /\ callsLog[1] = <<"AddActiveConnectionsTotal", flow.net.src>>
    /\ dpc \notin {"start", "adding"} => obs[1].pc = "idle"
    /\ (NoEviction /\ calls > 0) =>
          /\ <<flow.net.src>> \in DOMAIN gauge
          /\ gauge[<<flow.net.src>>] = calls

\* C18 witness: the driver has returned at the end of its stream, the
\* driver of another half-flow of the same client has begun, and the gauge
\* for the address is at 2
C18_Witness ==
    /\ dpc = "done"
    /\ Len(callsLog) > 1
    /\ calls = 2
    /\ NoEviction
    /\ \A o \in Observers : obs[o].pc = "idle"
    /\ gauge[<<flow.net.src>>] = 2

\* ------------------------------------------- registry: the expiry set

\* relation i had its timer created or reset in this step: the timer is
\* armed and was not, or has more time to run than it had
Rearmed(i) ==
    /\ i \in DOMAIN rels'
    /\ rels'[i].timer.active
    /\ \/ i \notin DOMAIN rels
       \/ ~rels[i].timer.active
       \/ rels'[i].timer.rem > rels[i].timer.rem

\* C19 as stated: every relation of the gauge, whichever of the three it is,
\* has the configured ExpireTime, and its timer, set to it when created and
\* when reset, has no more than ExpireTime to run
C19_EveryTimerSetToExpireTime ==
    \A i \in DOMAIN rels :
        /\ rels[i].expireTime = ExpireTime
        /\ rels[i].timer.active => rels[i].timer.rem <= ExpireTime

\* the expiry C19 amended expects for the gauge
ExpiryOfGauge ==
    IF IsRelationGauge THEN ExpireTime ELSE hourExpireTime

\* C19 amended: every relation of producer_topic_relation_info and of
\* consumer_topic_relation_info has the configured ExpireTime, every
\* relation of active_connections_total the fixed hourExpireTime; a
\* relation's timer is created with the relation's expiry and reset to it
\* on refresh
C19_TimerSetToExpiryOfItsGauge ==
    /\ [](\A i \in DOMAIN rels :
            /\ rels[i].expireTime = ExpiryOfGauge
            /\ rels[i].timer.active => rels[i].timer.rem <= ExpiryOfGauge)
    /\ [][\A i \in 1..MaxCalls : Rearmed(i) => rels'[i].timer.rem = ExpiryOfGauge]_vars

\* C19 witness: a relation of active_connections_total, observed a second
\* time after its timer had run for a tick or more, has its timer back at
\* the hour
C19_Witness ==
    /\ metricName = "active_connections_total"
    /\ \E i \in DOMAIN rels :
          /\ rels[i].timer.active
          /\ rels[i].timer.rem = hourExpireTime
          /\ rels[i].pc = "wait"
          /\ nobs[rels[i].labels] >= 2
          /\ sinceObs[rels[i].labels] = 0
    /\ \A o \in Observers : obs[o].pc = "idle"

\* the driver's goroutine has panicked inside DecodeRequest
Panicked == dpc = "handle" /\ last.res.err = Panic

\* C20: no reachable state of the driver is a panic: on every stream
\* DecodeRequest, Decode, the body decoders and the decoder's primitives
\* return with a request or an error, every index and slice they take within
\* its buffer and every buffer they make of a length that is not negative
C20_NeverPanics ==
    /\ ~Panicked
    /\ dpc = "handle" =>
          /\ last.res.pos >= last.start
          /\ last.res.pos <= Len(stream)
          /\ last.res.err = NoError <=> last.res.req # NoRequest

\* C20 witness: DecodeRequest has returned an error, and no panic, for a
\* Produce frame whose records have a negative length, after it had returned
\* insufficient data for records whose length reaches beyond their frame
C20_Witness ==
    /\ dpc = "handle"
    /\ Len(frames) = 2
    /\ frames[1].name = "produce, records beyond the frame"
    /\ frames[2].name = "produce, records of negative length"
    /\ last.start = Len(frames[1].bytes)
    /\ last.res.err = errInvalidByteSliceLength
    /\ logged = <<unableToRead>>

\* ------------------------------------------- registry: freedom of deadlock

\* a goroutine of the registry is inside an operation it has yet to finish:
\* an observer inside set/inc/update, a relation at its send on expCh,
\* runExpiration between its receive and its Unlock
SomeoneBusy ==
    \/ \E o \in Observers : obs[o].pc # "idle"
    \/ \E i \in DOMAIN rels : rels[i].pc = "send"
    \/ exp.pc # "recv"

\* the steps of the goroutines that need no time to pass: those of the
\* observers inside update, of the relations at their channel operations and
\* of runExpiration
GoroutineSteps ==
    \/ \E o \in Observers : update_Lock(o) \/ update_Body(o) \/ update_Unlock(o)
    \/ \E i \in 1..MaxCalls : run_Receive(i) \/ run_Send(i)
    \/ runExpiration_Delete \/ runExpiration_Lock \/ runExpiration_Body
    \/ runExpiration_Unlock

\* whoever holds the metric mutex is between its Lock and its Unlock, at a
\* statement that waits for nothing: not at a channel operation
HolderRuns ==
    /\ \A o \in Observers : mux = HeldBy(o) <=> obs[o].pc \in {"crit", "unlock"}
    /\ mux = HeldByExpiration <=> exp.pc \in {"crit", "unlock"}

\* C21: the registry never deadlocks - in every reachable state where a
\* goroutine is inside an operation some goroutine can take a step; whoever
\* holds the metric mutex is at a statement that waits for nothing, and the
\* handing over of labels on expCh is a step of a relation and runExpiration
\* alone, made with the mutex held by neither and touching no observer; under
\* fair scheduling every relation blocked at its send is eventually received
C21_NeverDeadlocks ==
    /\ [](SomeoneBusy => ENABLED GoroutineSteps)
    /\ []HolderRuns
    /\ [][(exp.pc = "recv" /\ exp'.pc # "recv") =>
              /\ mux # HeldByExpiration
              /\ mux' = mux
              /\ obs' = obs
              /\ \E i \in DOMAIN rels :
                    /\ rels[i].pc = "send"
                    /\ rels'[i].pc = "done"
                    /\ exp'.labels = rels[i].labels]_vars
    /\ \A i \in 1..MaxCalls :
          (i \in DOMAIN rels /\ rels[i].pc = "send")
              ~> (i \in DOMAIN rels /\ rels[i].pc = "done")

\* C21 witness: a relation is blocked at its send while runExpiration, busy
\* with the eviction of another, waits for the metric mutex an observer holds
C21_Witness ==
    /\ \E i \in DOMAIN rels : rels[i].pc = "send"
    /\ exp.pc = "lock"
    /\ \E o \in Observers : mux = HeldBy(o)

\* the frame the client sent that this iteration's DecodeRequest began at
FrameAtStart == CHOOSE k \in 1..Len(frames) : FrameStart(k) = last.start

\* C28: when DecodeRequest has returned a Produce request without error for
\* a frame the client sent, ExtractTopics of its body is the set of the topic
\* names in the frame's topic array: every name of the array and no other,
\* a name that occurs twice being there, and nothing for an array of no
\* topics
C28_ExtractsTopicsOfRequest ==
    (dpc = "handle" /\ last.res.err = NoError /\ last.res.req # NoRequest
        /\ last.res.req.Key = 0 /\ SentFrame) =>
        /\ last.res.req.Body.kind = "ProduceRequest"
        /\ ExtractTopics(last.res.req.Body) = frames[FrameAtStart].topics

\* C28 witness: DecodeRequest has returned the Produce request of two topics
\* that follows, in the stream, a Produce request of no topics
C28_Witness ==
    /\ dpc = "handle"
    /\ last.res.err = NoError
    /\ last.res.req # NoRequest
    /\ SentFrame
    /\ Len(frames) = 2
    /\ frames[1].name = "produce, no topics"
    /\ frames[2].name = "produce v3"
    /\ last.start > 0
    /\ ExtractTopics(last.res.req.Body) = {TopicT, TopicU}

\* --------------------------------------------------------- codec: claims

\* the bytes that remained in the buffer when the last call was made, and
\* the call being made in this step
RemainingAtCall == Len(Raw) - called.at
Calling(methods) == called'.method \in methods /\ called'.nth = called.nth + 1

\* C22: Decode returns nil only if in.Decode returned nil and left the cursor
\* at exactly len(buf); with in.Decode returning nil and the cursor anywhere
\* else, before the end of the buffer or, moved there by discard, beyond it,
\* Decode returns the PacketDecodingError "invalid length"; an error of
\* in.Decode is returned as it is
C22_SuccessOnlyAtEndOfBuffer ==
    [][Calling({"Decode"}) =>
          /\ ret'.err = NoError <=> (ret.err = NoError /\ helper.off = Len(Raw))
          /\ (ret.err = NoError /\ helper.off # Len(Raw))
                => ret'.err = errInvalidLength
          /\ IsPacketDecodingError(errInvalidLength)
          /\ ret.err # NoError => ret'.err = ret.err]_vars

\* C22 witness: Decode has returned "invalid length" for a decoder whose
\* cursor a discard had moved beyond the end of its buffer
C22_Witness ==
    /\ called.method = "Decode"
    /\ Raw # <<>>
    /\ helper.off > Len(Raw)
    /\ ret.err = errInvalidLength

\* the 16-bit length prefix at the cursor
StringPrefix == Int16(Uint16(Raw, helper.off))

\* fewer bytes remain at the cursor than the call needs: the width of the
\* integer, the 4 bytes of an array count, the 2 bytes of a string's length
\* and the bytes that length announces, the length asked of getRawBytes
FewerThanNeeded(method, arg) ==
    LET rem == Len(Raw) - helper.off IN
    CASE method = "getInt8" -> rem < 1
      [] method = "getInt16" -> rem < 2
      [] method = "getInt32" -> rem < 4
      [] method = "getInt64" -> rem < 8
      [] method = "getArrayLength" -> rem < 4
      [] method = "getString" ->
            rem < 2 \/ (StringPrefix >= 0 /\ rem - 2 < StringPrefix)
      [] method = "getRawBytes" -> arg >= 0 /\ rem < arg
      [] OTHER -> FALSE

\* C23: every getInt8, getInt16, getInt32, getInt64, getArrayLength,
\* getString and getRawBytes made when fewer bytes remain than it needs
\* returns ErrInsufficientData and leaves the cursor at the end of the buffer
C23_InsufficientDataMovesToEnd ==
    [][(Calling({"getInt8", "getInt16", "getInt32", "getInt64", "getArrayLength",
                 "getString", "getRawBytes"})
           /\ FewerThanNeeded(called'.method, called'.arg))
          => /\ ret'.err = ErrInsufficientData
             /\ helper'.off = Len(Raw)]_vars

\* C23 witness: a getInt16 made with one byte left, after a call that
\* returned its value, has returned ErrInsufficientData with the cursor at
\* the end
C23_Witness ==
    /\ called.method = "getInt16"
    /\ called.nth >= 2
    /\ RemainingAtCall = 1
    /\ ret.err = ErrInsufficientData
    /\ helper.off = Len(Raw)

\* C24: getArrayLength, the 4 bytes of the count n being there, returns n if
\* and only if n is at most the bytes remaining after the count and at most
\* 2 * 65535; a count above the bytes remaining yields ErrInsufficientData, a
\* count within them and above 2 * 65535 the error "invalid array length"
C24_ArrayLengthLimits ==
    [][(Calling({"getArrayLength"}) /\ Len(Raw) - helper.off >= 4) =>
          LET n == Int32BE(Raw, helper.off)
              rem == Len(Raw) - helper.off - 4 IN
          /\ ret'.err = NoError <=> (n <= rem /\ n <= 2 * MaxUint16)
          /\ ret'.err = NoError => (ret'.val = n /\ helper'.off = helper.off + 4)
          /\ n > rem => ret'.err = ErrInsufficientData
          /\ (n <= rem /\ n > 2 * MaxUint16) => ret'.err = errInvalidArrayLength]_vars

\* C24 witness: getArrayLength has returned "invalid array length" for a
\* count of 2 * 65535 + 1 with that many bytes after it
C24_Witness ==
    /\ called.method = "getArrayLength"
    /\ ret.err = errInvalidArrayLength
    /\ RemainingAtCall - 4 > 2 * MaxUint16

\* C25: getInt32Array, getInt64Array and getStringArray, the 4 bytes of the
\* count being there, return an empty array and no error for a count of 0
\* and the error "invalid array length" for every count that is negative as
\* a signed 32-bit value
C25_NegativeCountIsInvalidArrayLength ==
    [][(Calling({"getInt32Array", "getInt64Array", "getStringArray"})
           /\ Len(Raw) - helper.off >= 4) =>
          LET n == Int32BE(Raw, helper.off) IN
          /\ n = 0 => (ret'.err = NoError /\ ret'.val = <<>>)
          /\ n < 0 => ret'.err = errInvalidArrayLength]_vars

\* C26: getString, the 2 bytes of the length n being there, returns the
\* empty string for n = -1, "invalid string length" for n < -1,
\* ErrInsufficientData for n above the bytes remaining, and otherwise the n
\* bytes after the length, the cursor 2 + n further; getNullableString does
\* the same but returns nil for n = -1
C26_StringByLengthPrefix ==
    [][(Calling({"getString", "getNullableString"})
           /\ Len(Raw) - helper.off >= 2) =>
          LET n == StringPrefix
              rem == Len(Raw) - helper.off - 2 IN
          /\ n = -1 =>
                /\ ret'.err = NoError
                /\ helper'.off = helper.off + 2
                /\ ret'.val = IF called'.method = "getString" THEN <<>> ELSE NilString
          /\ n < -1 => ret'.err = errInvalidStringLength
          /\ n > rem => ret'.err = ErrInsufficientData
          /\ (0 <= n /\ n <= rem) =>
                /\ ret'.err = NoError
                /\ ret'.val = Slice(Raw, helper.off + 2, helper.off + 2 + n)
                /\ Len(ret'.val) = n
                /\ helper'.off = helper.off + 2 + n]_vars

\* C26 witness: getNullableString has returned nil for a length of -1, after
\* a getString that returned the one byte of its string
C26_Witness ==
    /\ called.method = "getNullableString"
    /\ called.nth = 2
    /\ called.at = 3
    /\ ret.val = NilString
    /\ ret.err = NoError
    /\ helper.off = Len(Raw)

\* the byte at magicOffset of the blob, as the unsigned value 0..255
MagicByte == Raw[magicOffset + 1]

\* C27 as stated: records.decode selects the legacy MessageSet if and only
\* if the byte at offset 16 of the blob, one of 0..255, is below 2, and the
\* RecordBatch otherwise; on a blob of fewer than 17 bytes it returns
\* ErrInsufficientData and selects neither
C27_LegacyBelowTwo ==
    called.method = "Records.decode" =>
        IF Len(Raw) < magicOffset + 1
        THEN ret.err = ErrInsufficientData /\ ret.val = "unknownRecords"
        ELSE /\ ret.val = "legacyRecords" <=> MagicByte < 2
             /\ ret.val = "defaultRecords" <=> MagicByte >= 2

\* C27 amended: records.decode selects the legacy MessageSet if and only if
\* the byte at offset 16 of the blob, read as a signed 8-bit value, is below
\* 2, that is for the bytes 0, 1 and 128..255, and the RecordBatch for the
\* bytes 2..127; on a blob of fewer than 17 bytes it returns
\* ErrInsufficientData and selects neither
C27_LegacyBelowTwoSigned ==
    called.method = "Records.decode" =>
        IF Len(Raw) < magicOffset + 1
        THEN ret.err = ErrInsufficientData /\ ret.val = "unknownRecords"
        ELSE /\ ret.val = "legacyRecords" <=> (MagicByte < 2 \/ MagicByte >= 128)
             /\ ret.val = "defaultRecords" <=> (2 <= MagicByte /\ MagicByte < 128)

\* C27 witness: records.decode has selected the legacy MessageSet for a blob
\* whose byte at offset 16 is 255
C27_Witness ==
    /\ called.method = "Records.decode"
    /\ Len(Raw) = magicOffset + 1
    /\ MagicByte = 255
    /\ ret.val = "legacyRecords"


\* ---------------------------------------------------------------------
\* registry: the key of the relation table

\* label tuples of the shape the drivers pass for a relation gauge: a client
\* address (dotted or colon-separated, never with "_") and a topic name,
\* which may itself hold "_" or be empty
CallerLabels ==
    {<<ip, t>> : ip \in {"10.0.0.1", "10.0.0.12", "::1"},
                 t \in {"t", "u", "t_u", "_t", "2_t", ""}}

\* genLabelKey tells any two label tuples of the callers apart
KeyInjective ==
    \A l1 \in CallerLabels \cup AllLabels : \A l2 \in CallerLabels \cup AllLabels :
        genLabelKey(l1) = genLabelKey(l2) => l1 = l2

\* C29: the key of the relation table is injective on the label tuples, every
\* table entry is filed under the key of its own labels, and so every exposed
\* series, once the operations on it have completed, has exactly one live
\* relation (its own timer) left to evict it
C29_OwnRelationPerSeries ==
    /\ KeyInjective
    /\ \A k \in DOMAIN relations : genLabelKey(rels[relations[k]].labels) = k
    /\ \A l \in AllLabels :
          (OpsCompleted(l) /\ l \in DOMAIN gauge)
              => Cardinality({i \in DOMAIN rels :
                                 rels[i].labels = l /\ rels[i].pc # "done"}) = 1

\* the first two parts of C29 alone: what holds of the code
C29_KeyedByOwnLabels ==
    /\ KeyInjective
    /\ \A k \in DOMAIN relations : genLabelKey(rels[relations[k]].labels) = k


\* ---------------------------------------------------------------------
\* driver: the size check of the re-framing DecodeRequest

\* body_len = L - 4 as DecodeRequest computes it, and the limits it must keep
BodyLen == SubInt32_4(DeclaredLength)
BodyLenWithinLimits == 4 < BodyLen /\ BodyLen <= MaxRequestSize

\* DecodeRequest returned with the reader right behind the prelude and with
\* no scratch buffer made
NothingOfBodyTouched ==
    /\ pos = last.start + needReadBytes
    /\ last.res.made = NoBuffer
    /\ last.res.req = NoRequest

FailedAfterFullRead ==
    /\ FrameDelivered
    /\ IsPacketDecodingError(last.res.err)
    /\ ~RefusedAtPrelude
    /\ pos = last.start + 4 + DeclaredLength

\* C31: when the handling of a frame of declared length L ends in a
\* packet-decoding error after the frame was read whole, the bytes
\* DecodeRequest consumed and the bytes the driver then discards are L + 4
\* together: the next DecodeRequest starts at the first byte after the frame
C31_DiscardEndsAtFrameEnd ==
    [][(dpc = "handle" /\ FailedAfterFullRead) =>
          /\ dpc' = "decode"
          /\ pos' = last.start + 4 + DeclaredLength]_vars


\* ---------------------------------------------------------------------
\* driver: draining the reader

\* C32: the driver returns only after its reader has returned end-of-stream:
\* whenever run has returned, the last DecodeRequest ended in io.EOF or
\* io.ErrUnexpectedEOF and every byte of the stream has been read
C32_ExitsOnlyAtEndOfStream ==
    dpc = "done" =>
        /\ last.res.err \in {EOF, ErrUnexpectedEOF}
        /\ pos = Len(stream)

\* C32 witness: run has returned on a stream of two frames, the first of
\* which it skipped after an error, with every byte read
C32_Witness ==
    /\ dpc = "done"
    /\ Len(frames) = 2
    /\ discards >= 1
    /\ last.res.err = EOF
    /\ pos = Len(stream)
    /\ pos > 0


\* ---------------------------------------------------------------------
\* registry: one timer and one timer task for a label key

\* the relations of the label tuple l whose timer is armed, and those whose
\* goroutine has not returned
ArmedTimers(l) == {i \in DOMAIN rels : rels[i].labels = l /\ rels[i].timer.active}
TimerTasks(l) == {i \in DOMAIN rels : rels[i].labels = l /\ rels[i].pc # "done"}

\* at most one goroutine of relation.run is alive for a label key
OneTimerTask == \A l \in AllLabels : Cardinality(TimerTasks(l)) <= 1

\* at most one timer is armed for a label key
OneArmedTimer == \A l \in AllLabels : Cardinality(ArmedTimers(l)) <= 1

\* an observation of a label tuple that has an entry makes no relation and
\* re-arms the timer of that entry; a relation is made only for a key the
\* table does not hold
RefreshOrCreate ==
    \A o \in Observers :
        (obs[o].pc = "crit" /\ obs'[o].pc = "unlock") =>
            LET key == genLabelKey(obs[o].labels) IN
            IF key \in DOMAIN relations
            THEN /\ Len(rels') = Len(rels)
                 /\ relations' = relations
                 /\ rels'[relations[key]].timer.active
                 /\ rels'[relations[key]].timer.rem = rels[relations[key]].expireTime
            ELSE /\ Len(rels') = Len(rels) + 1
                 /\ relations'[key] = Len(rels')

\* a relation sends its labels once: having sent, its goroutine has returned
\* for good
SendsOnce ==
    \A i \in DOMAIN rels :
        /\ rels[i].pc = "done" => rels'[i].pc = "done"
        /\ (rels[i].pc = "send" /\ rels'[i].pc # "send") => rels'[i].pc = "done"

\* C33: for each label key of a metric there is at most one armed timer and
\* one timer task at any time; an observation of an existing entry resets its
\* timer and makes no second one, a relation sends at most one eviction
\* message, and a relation is made for a key only when the table holds none
C33_OneTimerPerKey ==
    /\ []OneTimerTask
    /\ []OneArmedTimer
    /\ [][RefreshOrCreate /\ SendsOnce]_vars

\* what holds of the code: everything C33 says but the single armed timer
C33_OneTaskPerKey ==
    /\ []OneTimerTask
    /\ [][RefreshOrCreate /\ SendsOnce]_vars


\* ---------------------------------------------------------------------
\* registry: the relation table under the mutex

\* the tasks between m.mux.Lock() and m.mux.Unlock()
InCriticalSection ==
    {HeldBy(o) : o \in {x \in Observers : obs[x].pc \in {"crit", "unlock"}}}
        \cup (IF exp.pc \in {"crit", "unlock"} THEN {HeldByExpiration} ELSE {})

\* the tasks at the statement that reads or writes m.relations: the lookup
\* and refresh-or-create of update, the delete of runExpiration
AtTable ==
    {HeldBy(o) : o \in {x \in Observers : obs[x].pc = "crit"}}
        \cup (IF exp.pc = "crit" THEN {HeldByExpiration} ELSE {})

\* C34: every read and write of m.relations is made by the task that holds
\* m.mux, and no two tasks are between Lock and Unlock of one metric at once
C34_TableUnderMutex ==
    /\ [](/\ Cardinality(InCriticalSection) <= 1
          /\ \A t \in AtTable : mux = t
          /\ \A t \in InCriticalSection : mux = t)
    /\ [][relations' # relations => (AtTable # {} /\ AtTable' = {})]_vars

\* C34 witness: runExpiration is deleting a relation under the mutex while
\* both observers wait at m.mux.Lock()
C34_Witness ==
    /\ exp.pc = "crit"
    /\ mux = HeldByExpiration
    /\ \A o \in Observers : obs[o].pc = "lock"


\* ---------------------------------------------------------------------
\* codec: the partition entries of a ProduceRequest

\* the records length S a partition entry at the cursor declares, and the
\* bytes that remain behind the entry's partition id and records length
DeclaredRecordsLength == Int32BE(Raw, helper.off + 4)
BehindEntryHead == Len(Raw) - helper.off - 8

\* C35: for a partition entry of a ProduceRequest that declares the records
\* length S, the cursor of the request's decoder advances by exactly 8 + S,
\* whether the records decoder accepts the S bytes of its own decoder or
\* not; with S below 0 or above the bytes that remain an error is returned,
\* no partition is put into the request, and Decode rejects the request
C35_PartitionAdvancesBy8PlusS ==
    [][(Calling({"ProduceRequest.partition"}) /\ BehindEntryHead >= 0) =>
          IF DeclaredRecordsLength < 0
          THEN /\ ret'.err = errInvalidByteSliceLength
               /\ ret'.val = {}
          ELSE IF DeclaredRecordsLength > BehindEntryHead
          THEN /\ ret'.err = ErrInsufficientData
               /\ ret'.val = {}
          ELSE /\ helper'.off = helper.off + 8 + DeclaredRecordsLength
               /\ ret'.err = Records_decode(Slice(Raw, helper.off + 8,
                                                  helper.off + 8 + DeclaredRecordsLength))
               /\ ret'.val # {} <=> ret'.err = NoError]_vars

\* C35 witness: the partition loop has run on an entry of two bytes of
\* records, too few for the records decoder, which returned an error; the
\* cursor is 8 + 2 further on with a byte of the buffer still before it
C35_Witness ==
    /\ called.method = "ProduceRequest.partition"
    /\ Len(Raw) - called.at >= 8
    /\ Int32BE(Raw, called.at + 4) = 2
    /\ ret.err = ErrInsufficientData
    /\ helper.off = called.at + 10
    /\ helper.off < Len(Raw)


\* ---------------------------------------------------------------------
\* codec: the head of a ProduceRequest

\* the four reads of the head made one after the other from the cursor, each
\* from where the one before it ended: the transactional id (for a version
\* that has one), the required acks, the timeout, the number of topics
ReadTransactionalID(hasID) ==
    IF hasID THEN getNullableString(Raw, helper.off)
    ELSE Result(helper.off, NilString, NoError)
ReadRequiredAcks(hasID) == getInt16(Raw, ReadTransactionalID(hasID).off)
ReadTimeout(hasID) == getInt32(Raw, ReadRequiredAcks(hasID).off)
ReadTopicCount(hasID) == getArrayLength(Raw, ReadTimeout(hasID).off)

\* the first of the four reads that returns an error, or the last of them
FirstFailed(hasID) ==
    IF ReadTransactionalID(hasID).err # NoError THEN ReadTransactionalID(hasID)
    ELSE IF ReadRequiredAcks(hasID).err # NoError THEN ReadRequiredAcks(hasID)
    ELSE IF ReadTimeout(hasID).err # NoError THEN ReadTimeout(hasID)
    ELSE ReadTopicCount(hasID)

\* C36: ProduceRequest.Decode reads a nullable transactional id if and only
\* if the version is at least 3, and then, for every version, the required
\* acks as an int16, the timeout as an int32 and the topic array, in that
\* order; the first read that fails ends the decode with its error, and
\* with no topic announced the decode ends behind the topic count
C36_ProduceHeadInOrder ==
    [][Calling({"ProduceRequest.Decode"}) =>
          LET hasID == called'.arg >= 3 IN
          IF FirstFailed(hasID).err # NoError
          THEN /\ ret'.err = FirstFailed(hasID).err
               /\ helper'.off = FirstFailed(hasID).off
          ELSE /\ helper'.off >= ReadTopicCount(hasID).off
               /\ ~hasID => ReadTopicCount(hasID).off = helper.off + 2 + 4 + 4
               /\ hasID => ReadRequiredAcks(hasID).off >= helper.off + 2 + 2
               /\ ret'.val.RequiredAcks = ReadRequiredAcks(hasID).val
               /\ ret'.val.Timeout = ReadTimeout(hasID).val
               /\ ret'.val.TransactionalID = ReadTransactionalID(hasID).val
               /\ ReadTopicCount(hasID).val <= 0 =>
                     /\ ret'.err = NoError
                     /\ helper'.off = ReadTopicCount(hasID).off
                     /\ ret'.val.topics = {}
               /\ (ReadTopicCount(hasID).val > 0 /\ ret'.err = NoError) =>
                     /\ ret'.val.topics # {}
                     /\ Cardinality(ret'.val.topics) <= ReadTopicCount(hasID).val]_vars

\* C36 witness: a version 3 request with the transactional id "c", required
\* acks of -1, a timeout of 10000 and no topics has been decoded to its end
C36_Witness ==
    /\ called.method = "ProduceRequest.Decode"
    /\ called.arg = 3
    /\ called.at = 0
    /\ ret.err = NoError
    /\ helper.off = Len(Raw)
    /\ Raw = PutString(ClientC) \o PutInt16(-1) \o PutInt32(10000) \o PutInt32(0)
    /\ ret.val.TransactionalID = ClientC
    /\ ret.val.RequiredAcks = -1
    /\ ret.val.Timeout = 10000
    /\ ret.val.topics = {}


\* ---------------------------------------------------------------------
\* codec: the sub-decoders

\* the bytes before the cursor of the decoder about to be called
BeforeCursor == Len(Raw) - helper.off

\* getSubset(n) with 0 <= n <= the bytes before the cursor: no error, the
\* cursor n further on, the new decoder over the n bytes it passed
SubsetTaken ==
    Calling({"getSubset"}) =>
        LET n == called'.arg IN
        IF n < 0
        THEN ret'.err = errInvalidByteSliceLength /\ helper'.off = helper.off
        ELSE IF n > BeforeCursor
        THEN ret'.err = ErrInsufficientData /\ helper'.off = Len(Raw)
        ELSE /\ ret'.err = NoError
             /\ helper'.off = helper.off + n
             /\ Len(ret'.val) = n
             /\ \A i \in 1..n : ret'.val[i] = Raw[helper.off + i]

\* peek(offset, length): the cursor stays; ErrInsufficientData exactly when
\* offset + length bytes are not before the cursor, else the new decoder is
\* over the length bytes that start offset behind the cursor
PeekLeavesCursor ==
    Calling({"peek"}) =>
        LET offset == called'.arg[1]
            length == called'.arg[2] IN
        /\ helper'.off = helper.off
        /\ IF BeforeCursor < offset + length
           THEN ret'.err = ErrInsufficientData
           ELSE /\ ret'.err = NoError
                /\ Len(ret'.val) = length
                /\ \A i \in 1..length : ret'.val[i] = Raw[helper.off + offset + i]

\* peekInt8(offset): the cursor stays; ErrInsufficientData exactly when the
\* byte is not before the cursor
PeekInt8LeavesCursor ==
    Calling({"peekInt8"}) =>
        /\ helper'.off = helper.off
        /\ ret'.err = (IF BeforeCursor < called'.arg + 1 THEN ErrInsufficientData
                       ELSE NoError)

\* C37: a getSubset(n) that returns a decoder moves the cursor of its
\* parent on by exactly n and the decoder is over exactly the n bytes
\* passed; peek(offset, length) and peekInt8(offset) leave the cursor of the
\* parent where it was, when they succeed and when they fail
C37_SubsetAdvancesPeekDoesNot ==
    [][SubsetTaken /\ PeekLeavesCursor /\ PeekInt8LeavesCursor]_vars

\* C37 witness: getSubset(2) has returned a decoder over the two bytes the
\* cursor stood before, and the cursor is 2 further on, not at the end of
\* the buffer
C37_Witness ==
    /\ called.method = "getSubset"
    /\ called.arg = 2
    /\ ret.err = NoError
    /\ helper.off = called.at + 2
    /\ helper.off < Len(Raw)
    /\ ret.val = Slice(Raw, called.at, called.at + 2)

====
